---- MODULE Spec2Model ----
(***************************************************************************)
(* Model of the MCP conformance action: the snapshot comparison functions  *)
(* (src/src/diff.ts, compareResults / generateSimpleDiff of                *)
(* src/src/runner.ts) and the orchestration of runSingleConfigTest and     *)
(* runAllTests (src/src/runner.ts) over the git primitives of git.ts       *)
(* (kept in src/src/reporter.ts, lines 200-398).                           *)
(***************************************************************************)
EXTENDS Integers, Sequences, FiniteSets, TLC

(***************************************************************************)
(* JSON values.  Every value is a record of one shape so that values of    *)
(* different kinds can be compared: k is the runtime kind, s the text of a *)
(* scalar (the content of a string, the digits of a number, "true",        *)
(* "false", "null"), items the members of an array or the member values of *)
(* an object, keys the member names of an object in insertion order.       *)
(***************************************************************************)
JStr(s) == [k |-> "string", s |-> s, keys |-> <<>>, items |-> <<>>]

JNum(d) == [k |-> "number", s |-> d, keys |-> <<>>, items |-> <<>>]

JBool(b) == [k |-> "boolean", s |-> b, keys |-> <<>>, items |-> <<>>]

JNull == [k |-> "null", s |-> "null", keys |-> <<>>, items |-> <<>>]

JArr(items) == [k |-> "array", s |-> "", keys |-> <<>>, items |-> items]

JObj(keys, items) == [k |-> "object", s |-> "", keys |-> keys, items |-> items]

\* Object.keys(v): an array has its indices "0", "1", ... as keys.
ObjectKeys(v) ==
  IF v.k = "array" THEN [i \in 1..Len(v.items) |-> ToString(i - 1)] ELSE v.keys

\* key in v
HasKey(v, key) == \E i \in 1..Len(ObjectKeys(v)) : ObjectKeys(v)[i] = key

\* v[key] for a key v has
GetKey(v, key) ==
  v.items[CHOOSE i \in 1..Len(ObjectKeys(v)) : ObjectKeys(v)[i] = key]

\* typeof v
TypeOf(v) == IF v.k \in {"array", "object", "null"} THEN "object" ELSE v.k

(***************************************************************************)
(* Text.  Texts are strings; the helpers below are the string primitives   *)
(* of the runtime (join, split, comparison by code unit).                  *)
(***************************************************************************)
RECURSIVE JoinFrom(_, _, _)
JoinFrom(parts, sep, i) ==
  IF i > Len(parts) THEN ""
  ELSE IF i = Len(parts) THEN parts[i]
  ELSE parts[i] \o sep \o JoinFrom(parts, sep, i + 1)

\* parts.join(sep)
Join(parts, sep) == JoinFrom(parts, sep, 1)

\* the character of s at position i (1-based), "" past the end
Ch(s, i) == IF i >= 1 /\ i <= Len(s) THEN SubSeq(s, i, i) ELSE ""

\* s.split("\n"): the texts between the line feeds of s
SplitLines(s) ==
  LET feeds == {i \in 1..Len(s) : Ch(s, i) = "\n"}
      \* the position of the n-th line feed; 0 before the first, past the end after
      feed(n) == IF n = 0 THEN 0
                 ELSE IF n > Cardinality(feeds) THEN Len(s) + 1
                 ELSE CHOOSE i \in feeds : Cardinality({j \in feeds : j < i}) = n - 1
  IN [n \in 1..(Cardinality(feeds) + 1) |-> SubSeq(s, feed(n - 1) + 1, feed(n) - 1)]

\* The characters the model's texts are made of, in code-unit order.
CharOrder == " \"#()+,-./0123456789:ABCDEFGHIJKLMNOPQRSTUVWXYZ[\\]_abcdefghijklmnopqrstuvwxyz{}"

CharRank(c) ==
  IF c = "" THEN 0
  ELSE IF c = "\n" THEN 1
  ELSE 1 + (CHOOSE i \in 1..Len(CharOrder) : SubSeq(CharOrder, i, i) = c)

\* a < b for strings: decided at the first position where they differ
StrLess(a, b) ==
  LET n == IF Len(a) < Len(b) THEN Len(a) ELSE Len(b)
      differ == {i \in 1..n : Ch(a, i) # Ch(b, i)}
      first == CHOOSE i \in differ : \A j \in differ : i <= j
  IN IF differ = {} THEN Len(a) < Len(b)
     ELSE CharRank(Ch(a, first)) < CharRank(Ch(b, first))

(***************************************************************************)
(* JSON.stringify and JSON.parse.                                          *)
(***************************************************************************)
EscapeChar(c) ==
  CASE c = "\"" -> "\\\""
    [] c = "\\" -> "\\\\"
    [] c = "\n" -> "\\n"
    [] OTHER -> c

RECURSIVE EscapeRange(_, _, _)
\* the characters lo..hi of s, each escaped
EscapeRange(s, lo, hi) ==
  IF lo > hi THEN ""
  ELSE IF lo = hi THEN EscapeChar(Ch(s, lo))
  ELSE EscapeRange(s, lo, (lo + hi) \div 2) \o EscapeRange(s, (lo + hi) \div 2 + 1, hi)

\* the string literal JSON.stringify writes for the string s
Quote(s) == "\"" \o EscapeRange(s, 1, Len(s)) \o "\""

RECURSIVE UnescapeFrom(_, _)
UnescapeFrom(s, i) ==
  IF i > Len(s) THEN ""
  ELSE IF Ch(s, i) = "\\"
       THEN (IF Ch(s, i + 1) = "n" THEN "\n" ELSE Ch(s, i + 1)) \o UnescapeFrom(s, i + 2)
       ELSE Ch(s, i) \o UnescapeFrom(s, i + 1)

\* the string a string literal's body stands for
Unescape(s) == UnescapeFrom(s, 1)

RECURSIVE Stringify(_)
\* JSON.stringify(v)
Stringify(v) ==
  CASE v.k = "string" -> Quote(v.s)
    [] v.k = "array" ->
         "[" \o Join([i \in 1..Len(v.items) |-> Stringify(v.items[i])], ",") \o "]"
    [] v.k = "object" ->
         "{" \o Join([i \in 1..Len(v.items) |->
                        Quote(v.keys[i]) \o ":" \o Stringify(v.items[i])], ",")
             \o "}"
    [] OTHER -> v.s

RECURSIVE Pretty(_, _)
\* JSON.stringify(v, null, 2), ind being the indentation reached
Pretty(v, ind) ==
  CASE v.k = "string" -> Quote(v.s)
    [] v.k = "array" ->
         IF Len(v.items) = 0 THEN "[]"
         ELSE "[\n"
              \o Join([i \in 1..Len(v.items) |->
                         ind \o "  " \o Pretty(v.items[i], ind \o "  ")], ",\n")
              \o "\n" \o ind \o "]"
    [] v.k = "object" ->
         IF Len(v.items) = 0 THEN "{}"
         ELSE "{\n"
              \o Join([i \in 1..Len(v.items) |->
                         ind \o "  " \o Quote(v.keys[i]) \o ": "
                             \o Pretty(v.items[i], ind \o "  ")], ",\n")
              \o "\n" \o ind \o "}"
    [] OTHER -> v.s

Digits == {"0", "1", "2", "3", "4", "5", "6", "7", "8", "9"}

RECURSIVE SkipWs(_, _)
SkipWs(s, i) == IF Ch(s, i) \in {" ", "\n"} THEN SkipWs(s, i + 1) ELSE i

RECURSIVE ScanQuote(_, _)
\* position of the next unescaped double quote at or after i, past the end if none
ScanQuote(s, i) ==
  IF i > Len(s) \/ Ch(s, i) = "\"" THEN i
  ELSE IF Ch(s, i) = "\\" THEN ScanQuote(s, i + 2)
  ELSE ScanQuote(s, i + 1)

RECURSIVE ScanDigits(_, _)
ScanDigits(s, i) == IF Ch(s, i) \in Digits THEN ScanDigits(s, i + 1) ELSE i

ParseFail == [ok |-> FALSE, v |-> JNull, i |-> 0]

ParseOk(v, i) == [ok |-> TRUE, v |-> v, i |-> i]

\* obj[key] = v; a repeated key keeps its place and takes the later value
PutKey(keys, items, key, v) ==
  IF \E n \in 1..Len(keys) : keys[n] = key
  THEN [keys |-> keys,
        items |-> [n \in 1..Len(items) |-> IF keys[n] = key THEN v ELSE items[n]]]
  ELSE [keys |-> Append(keys, key), items |-> Append(items, v)]

RECURSIVE ParseValue(_, _), ParseElems(_, _, _), ParseMembers(_, _, _)
\* after an element of an array: a comma, the closing bracket, or an error
ElemNext(s, acc, j) ==
  IF Ch(s, j) = "," THEN ParseElems(s, j + 1, acc)
  ELSE IF Ch(s, j) = "]" THEN ParseOk(JArr(acc), j + 1)
  ELSE ParseFail

\* r is the outcome of parsing the element
ElemParsed(s, acc, r) ==
  IF ~r.ok THEN ParseFail ELSE ElemNext(s, Append(acc, r.v), SkipWs(s, r.i))

ParseElems(s, i, acc) == ElemParsed(s, acc, ParseValue(s, i))

\* after a member of an object: a comma, the closing brace, or an error
MemberNext(s, m, j) ==
  IF Ch(s, j) = "," THEN ParseMembers(s, j + 1, m)
  ELSE IF Ch(s, j) = "}" THEN ParseOk(JObj(m.keys, m.items), j + 1)
  ELSE ParseFail

\* r is the outcome of parsing the member's value
MemberParsed(s, m, key, r) ==
  IF ~r.ok THEN ParseFail
  ELSE MemberNext(s, PutKey(m.keys, m.items, key, r.v), SkipWs(s, r.i))

\* c is where the colon after the member's name must be
MemberValue(s, m, key, c) ==
  IF Ch(s, c) # ":" THEN ParseFail ELSE MemberParsed(s, m, key, ParseValue(s, c + 1))

\* the member's name is the string literal from i to q
MemberName(s, m, i, q) ==
  IF Ch(s, i) # "\"" \/ q > Len(s) THEN ParseFail
  ELSE MemberValue(s, m, Unescape(SubSeq(s, i + 1, q - 1)), SkipWs(s, q + 1))

MemberAt(s, m, i) == MemberName(s, m, i, ScanQuote(s, i + 1))

ParseMembers(s, i0, m) == MemberAt(s, m, SkipWs(s, i0))

\* the string literal from i to its closing quote at j
ParseString(s, i, j) ==
  IF j > Len(s) THEN ParseFail
  ELSE ParseOk(JStr(Unescape(SubSeq(s, i + 1, j - 1))), j + 1)

\* the digits from i to j - 1
ParseNumber(s, i, j) == ParseOk(JNum(SubSeq(s, i, j - 1)), j)

ParseWord(s, i, word, v) ==
  IF i + Len(word) - 1 <= Len(s) /\ SubSeq(s, i, i + Len(word) - 1) = word
  THEN ParseOk(v, i + Len(word))
  ELSE ParseFail

\* j is the first position after the opening bracket that is not white space
ParseArray(s, j) ==
  IF Ch(s, j) = "]" THEN ParseOk(JArr(<<>>), j + 1) ELSE ParseElems(s, j, <<>>)

ParseObject(s, j) ==
  IF Ch(s, j) = "}" THEN ParseOk(JObj(<<>>, <<>>), j + 1)
  ELSE ParseMembers(s, j, [keys |-> <<>>, items |-> <<>>])

\* the value that starts at i with the character c
ParseAt(s, i, c) ==
  CASE c = "\"" -> ParseString(s, i, ScanQuote(s, i + 1))
    [] c \in Digits -> ParseNumber(s, i, ScanDigits(s, i))
    [] c = "n" -> ParseWord(s, i, "null", JNull)
    [] c = "t" -> ParseWord(s, i, "true", JBool("true"))
    [] c = "f" -> ParseWord(s, i, "false", JBool("false"))
    [] c = "[" -> ParseArray(s, SkipWs(s, i + 1))
    [] c = "{" -> ParseObject(s, SkipWs(s, i + 1))
    [] OTHER -> ParseFail

ParseFrom(s, i) == ParseAt(s, i, Ch(s, i))

ParseValue(s, i0) == ParseFrom(s, SkipWs(s, i0))

\* r is the outcome of parsing the value at the start of s
ParseWhole(s, r) == IF r.ok /\ SkipWs(s, r.i) > Len(s) THEN r ELSE ParseFail

\* JSON.parse(s): ok is FALSE where JSON.parse throws
JsonParse(s) == ParseWhole(s, ParseValue(s, 1))

(***************************************************************************)
(* Map<string, T> and small sequence helpers.  A Map keeps its keys in     *)
(* insertion order; set() on a key it has replaces the value in place.     *)
(***************************************************************************)
EmptyMap == [keys |-> <<>>, items |-> <<>>]

MapHas(m, key) == \E n \in 1..Len(m.keys) : m.keys[n] = key

MapGet(m, key) == m.items[CHOOSE n \in 1..Len(m.keys) : m.keys[n] = key]

MapSet(m, key, v) == PutKey(m.keys, m.items, key, v)

InSeq(seq, x) == \E n \in 1..Len(seq) : seq[n] = x

\* [...new Set([...a, ...b])] for two sequences without repetitions
UnionKeys(a, b) == a \o SelectSeq(b, LAMBDA x : ~InSeq(a, x))

RECURSIVE FlattenFrom(_, _)
FlattenFrom(ss, i) == IF i > Len(ss) THEN <<>> ELSE ss[i] \o FlattenFrom(ss, i + 1)

\* the concatenation of a sequence of sequences
Flatten(ss) == FlattenFrom(ss, 1)

\* the place of ks[i] when ks is sorted (stable, by code units)
SortPos(ks, i) ==
  1 + Cardinality({j \in 1..Len(ks) :
                     StrLess(ks[j], ks[i]) \/ (ks[j] = ks[i] /\ j < i)})

\* perm[p] is the index in ks of the string that sorting puts at place p
SortPerm(ks) == [p \in 1..Len(ks) |-> CHOOSE i \in 1..Len(ks) : SortPos(ks, i) = p]

(***************************************************************************)
(* probe.ts: normalizeProbeResult and probeResultToFiles.                  *)
(***************************************************************************)
\* seq in the order perm gives
Permute(seq, perm) == [p \in 1..Len(seq) |-> seq[perm[p]]]

\* sorted by the JSON text of the items
SortByJson(ns) ==
  Permute(ns, SortPerm(SubSeq([i \in 1..Len(ns) |-> Stringify(ns[i])], 1, Len(ns))))

RECURSIVE normalizeProbeResult(_)
\* r is the outcome of JSON.parse on the string v
NormalizeEmbedded(v, r) ==
  IF r.ok THEN JStr(Stringify(normalizeProbeResult(r.v))) ELSE v

\* Variant: the members are normalized but keep the order they came in.
NormalizeObjectKeepsOrder(v, perm) ==
  JObj(v.keys, [p \in 1..Len(v.keys) |-> normalizeProbeResult(v.items[p])])

\* the object with its members in the order perm, each normalized
NormalizeObject(v, perm) ==
  JObj(Permute(v.keys, perm),
       [p \in 1..Len(v.keys) |-> normalizeProbeResult(v.items[perm[p]])])

normalizeProbeResult(v) ==
  CASE v.k = "array" ->
         JArr(SortByJson(SubSeq([i \in 1..Len(v.items) |->
                                   normalizeProbeResult(v.items[i])],
                                 1, Len(v.items))))
    [] v.k = "object" -> NormalizeObject(v, SortPerm(v.keys))
    [] v.k = "string" -> NormalizeEmbedded(v, JsonParse(v.s))
    [] OTHER -> v

\* The sections of a ProbeResult, in the order probeResultToFiles visits them.
Sections == <<"initialize", "tools", "prompts", "resources", "resourceTemplates">>

\* A ProbeResult: error is "" when unset, a section that is null is JNull,
\* customResponses is a Map from the message name to the response.
ProbeResult(error, sections, customResponses) ==
  [error |-> error, sections |-> sections, customResponses |-> customResponses]

\* JSON.stringify(normalizeProbeResult(v), null, 2)
FileText(v) == Pretty(normalizeProbeResult(v), "")

\* present are the names of the sections that are set
FilesOf(result, present, custom) ==
  [keys |-> present \o [i \in 1..Len(custom.keys) |-> "custom_" \o custom.keys[i]],
   items |-> [i \in 1..Len(present) |-> FileText(result.sections[present[i]])]
             \o [i \in 1..Len(custom.keys) |-> FileText(custom.items[i])]]

probeResultToFiles(result) ==
  FilesOf(result, SelectSeq(Sections, LAMBDA n : result.sections[n].k # "null"),
          result.customResponses)

(***************************************************************************)
(* diff.ts: the structural differ and the snapshot comparator.             *)
(***************************************************************************)
FormatStringLimit == 100

FormatJsonLimit == 200

\* json cut to limit characters, with "..." when it was longer
Truncated(json, limit) ==
  IF Len(json) > limit THEN SubSeq(json, 1, limit) \o "..." ELSE json

formatValue(value) ==
  CASE value.k = "null" -> "null"
    [] value.k = "string" ->
         Stringify(IF Len(value.s) > FormatStringLimit
                   THEN JStr(SubSeq(value.s, 1, FormatStringLimit) \o "...")
                   ELSE value)
    [] value.k \in {"array", "object"} -> Truncated(Stringify(value), FormatJsonLimit)
    [] OTHER -> value.s

\* the first of the fields name, uri, uriTemplate, method that item has as a string
KeyField(item, fields) ==
  SelectSeq(fields, LAMBDA f : HasKey(item, f) /\ GetKey(item, f).k = "string")

\* found are the identity fields the item has
ItemKeyOf(item, index, found) ==
  IF Len(found) > 0 THEN GetKey(item, found[1]).s ELSE "#" \o ToString(index)

\* Variant: every member is keyed by its position.
getItemKeyByIndex(item, index) == "#" \o ToString(index)

getItemKey(item, index) ==
  IF TypeOf(item) # "object" \/ item.k = "null" THEN "#" \o ToString(index)
  ELSE ItemKeyOf(item, index, KeyField(item, <<"name", "uri", "uriTemplate", "method">>))

RECURSIVE ItemsByKey(_, _, _)
\* the Map compareArrays builds from an array: items[i..] set under their keys
ItemsByKey(items, i, m) ==
  IF i > Len(items) THEN m
  ELSE ItemsByKey(items, i + 1, MapSet(m, getItemKey(items[i], i - 1), items[i]))

\* one line of a difference: the sign, the path and the formatted value
DiffLine(sign, path, value) == sign \o " " \o path \o ": " \o formatValue(value)

RECURSIVE findJsonDifferences(_, _, _)
\* the third loop of compareArrays: items under a key both Maps have
ModifiedItems(baseItems, targetItems, path) ==
  Flatten([n \in 1..Len(baseItems.keys) |->
             IF MapHas(targetItems, baseItems.keys[n])
             THEN findJsonDifferences(baseItems.items[n],
                                      MapGet(targetItems, baseItems.keys[n]),
                                      path \o "[" \o baseItems.keys[n] \o "]")
             ELSE <<>>])

\* Variant: every item of the Map is reported, also one the other Map has.
MissingItemsAll(sign, items, others, path) ==
  Flatten([n \in 1..Len(items.keys) |->
             <<DiffLine(sign, path \o "[" \o items.keys[n] \o "]", items.items[n])>>])

\* the first two loops of compareArrays: the items of one Map whose key the
\* other Map lacks
MissingItems(sign, items, others, path) ==
  Flatten([n \in 1..Len(items.keys) |->
             IF ~MapHas(others, items.keys[n])
             THEN <<DiffLine(sign, path \o "[" \o items.keys[n] \o "]", items.items[n])>>
             ELSE <<>>])

\* Variant: the loop over the added items is left out.
CompareItemMapsNoAdded(baseItems, targetItems, path) ==
  MissingItems("-", baseItems, targetItems, path)
  \o ModifiedItems(baseItems, targetItems, path)

CompareItemMaps(baseItems, targetItems, path) ==
  MissingItems("-", baseItems, targetItems, path)
  \o MissingItems("+", targetItems, baseItems, path)
  \o ModifiedItems(baseItems, targetItems, path)

compareArrays(base, target, path) ==
  CompareItemMaps(ItemsByKey(base, 1, EmptyMap), ItemsByKey(target, 1, EmptyMap), path)

\* Variant: a key only the target has is labelled as removed.
CompareKeyMislabelled(base, target, key, newPath) ==
  IF ~HasKey(base, key) THEN <<DiffLine("-", newPath, GetKey(target, key))>>
  ELSE IF ~HasKey(target, key) THEN <<DiffLine("-", newPath, GetKey(base, key))>>
  ELSE findJsonDifferences(GetKey(base, key), GetKey(target, key), newPath)

\* the body of the loop over allKeys, newPath being the path of the key
CompareKey(base, target, key, newPath) ==
  IF ~HasKey(base, key) THEN <<DiffLine("+", newPath, GetKey(target, key))>>
  ELSE IF ~HasKey(target, key) THEN <<DiffLine("-", newPath, GetKey(base, key))>>
  ELSE findJsonDifferences(GetKey(base, key), GetKey(target, key), newPath)

CompareKeys(base, target, path, allKeys) ==
  Flatten([n \in 1..Len(allKeys) |->
             CompareKey(base, target, allKeys[n],
                        IF path # "" THEN path \o "." \o allKeys[n] ELSE allKeys[n])])

\* the two lines of a changed value
Changed(base, target, path) ==
  <<DiffLine("-", path, base), DiffLine("+", path, target)>>

findJsonDifferences(base, target, path) ==
  IF base.k = "null"
  THEN IF target.k # "null"
       THEN <<DiffLine("+", IF path = "" THEN "root" ELSE path, target)>>
       ELSE <<>>
  ELSE IF target.k = "null"
  THEN <<DiffLine("-", IF path = "" THEN "root" ELSE path, base)>>
  ELSE IF TypeOf(base) # TypeOf(target)
  THEN Changed(base, target, IF path = "" THEN "root" ELSE path)
  ELSE IF base.k = "array" /\ target.k = "array"
  THEN compareArrays(base.items, target.items, path)
  ELSE IF TypeOf(base) = "object"
  THEN CompareKeys(base, target, path, UnionKeys(ObjectKeys(base), ObjectKeys(target)))
  ELSE IF base.s # target.s
  THEN Changed(base, target, path)
  ELSE <<>>

\* A value of type string | null.
NullText == [isNull |-> TRUE, s |-> ""]

Text(s) == [isNull |-> FALSE, s |-> s]

\* the diff text of an endpoint whose two files parsed
JsonDiffText(name, differences) ==
  IF Len(differences) = 0 THEN NullText
  ELSE Text(Join(<<"--- base/" \o name \o ".json",
                   "+++ target/" \o name \o ".json", "">> \o differences, "\n"))

\* Variant: without the fallback, a text that does not parse gives no diff.
JsonDiffOfNoFallback(name, base, target, b, t) ==
  IF b.ok /\ t.ok THEN JsonDiffText(name, findJsonDifferences(b.v, t.v, ""))
  ELSE NullText

\* b and t are the outcomes of JSON.parse on base and target
JsonDiffOf(name, base, target, b, t) ==
  IF b.ok /\ t.ok THEN JsonDiffText(name, findJsonDifferences(b.v, t.v, ""))
  ELSE IF base = target THEN NullText
  ELSE Text("--- base/" \o name \o "\n+++ target/" \o name
            \o "\n- " \o base \o "\n+ " \o target)

generateJsonDiff(name, base, target) ==
  JsonDiffOf(name, base, target, JsonParse(base), JsonParse(target))

\* files.get(endpoint) is truthy: the endpoint is there and its text not empty
Truthy(files, endpoint) == MapHas(files, endpoint) /\ MapGet(files, endpoint) # ""

\* files.get(endpoint) || ""
ContentOr(files, endpoint) ==
  IF MapHas(files, endpoint) THEN MapGet(files, endpoint) ELSE ""

\* if (diff) diffs.push({ endpoint, diff })
PushDiff(endpoint, diff) ==
  IF ~diff.isNull /\ diff.s # "" THEN <<[endpoint |-> endpoint, diff |-> diff.s]>>
  ELSE <<>>

\* Variant: an endpoint only one side has is passed to the differ as well.
CompareEndpointAlwaysDiffs(endpoint, hasBase, hasTarget, baseContent, targetContent) ==
  IF baseContent # targetContent
  THEN PushDiff(endpoint, generateJsonDiff(endpoint, baseContent, targetContent))
  ELSE <<>>

\* the body of the loop over allEndpoints
CompareEndpoint(endpoint, hasBase, hasTarget, baseContent, targetContent) ==
  IF ~hasTarget /\ hasBase
  THEN <<[endpoint |-> endpoint,
          diff |-> "Endpoint removed in target (was present in base)"]>>
  ELSE IF hasTarget /\ ~hasBase
  THEN <<[endpoint |-> endpoint,
          diff |-> "Endpoint added in target (not present in base)"]>>
  ELSE IF baseContent # targetContent
  THEN PushDiff(endpoint, generateJsonDiff(endpoint, baseContent, targetContent))
  ELSE <<>>

CompareFiles(baseFiles, targetFiles, allEndpoints) ==
  Flatten([n \in 1..Len(allEndpoints) |->
             CompareEndpoint(allEndpoints[n],
                             Truthy(baseFiles, allEndpoints[n]),
                             Truthy(targetFiles, allEndpoints[n]),
                             ContentOr(baseFiles, allEndpoints[n]),
                             ContentOr(targetFiles, allEndpoints[n]))])

CompareFileMaps(baseFiles, targetFiles) ==
  CompareFiles(baseFiles, targetFiles, UnionKeys(baseFiles.keys, targetFiles.keys))

compareProbeResults(baseResult, targetResult) ==
  CompareFileMaps(probeResultToFiles(baseResult), probeResultToFiles(targetResult))

(***************************************************************************)
(* runner.ts: compareResults and generateSimpleDiff.                       *)
(***************************************************************************)
\* the lines the loop of generateSimpleDiff pushes for line i
SimpleDiffLine(baseLines, branchLines, i) ==
  IF i <= Len(baseLines) /\ i <= Len(branchLines) /\ baseLines[i] = branchLines[i]
  THEN <<>>
  ELSE (IF i <= Len(baseLines) THEN <<"- " \o baseLines[i]>> ELSE <<>>)
       \o (IF i <= Len(branchLines) THEN <<"+ " \o branchLines[i]>> ELSE <<>>)

SimpleDiffText(name, diffLines) ==
  IF Len(diffLines) = 0 THEN NullText
  ELSE Text("--- base/" \o name \o ".json\n+++ branch/" \o name \o ".json\n"
            \o Join(diffLines, "\n"))

SimpleDiffOf(name, baseLines, branchLines) ==
  SimpleDiffText(name,
    Flatten([i \in 1..(IF Len(baseLines) > Len(branchLines)
                       THEN Len(baseLines) ELSE Len(branchLines)) |->
               SimpleDiffLine(baseLines, branchLines, i)]))

generateSimpleDiff(name, base, branch) ==
  SimpleDiffOf(name, SplitLines(base), SplitLines(branch))

\* if (diff) diffs.set(endpoint, diff)
SetDiff(diffs, endpoint, diff) ==
  IF ~diff.isNull /\ diff.s # "" THEN MapSet(diffs, endpoint, diff.s) ELSE diffs

\* the body of the loop over allEndpoints: the Map after the endpoint
ComparedEndpoint(diffs, endpoint, hasBranch, hasBase, branchContent, baseContent) ==
  IF ~hasBranch /\ hasBase
  THEN MapSet(diffs, endpoint, "Endpoint removed in current branch (was present in base)")
  ELSE IF hasBranch /\ ~hasBase
  THEN MapSet(diffs, endpoint, "Endpoint added in current branch (not present in base)")
  ELSE IF branchContent # baseContent
  THEN SetDiff(diffs, endpoint, generateSimpleDiff(endpoint, baseContent, branchContent))
  ELSE diffs

RECURSIVE compareResultsFrom(_, _, _, _, _)
compareResultsFrom(branchFiles, baseFiles, allEndpoints, n, diffs) ==
  IF n > Len(allEndpoints) THEN diffs
  ELSE compareResultsFrom(branchFiles, baseFiles, allEndpoints, n + 1,
         ComparedEndpoint(diffs, allEndpoints[n],
                          Truthy(branchFiles, allEndpoints[n]),
                          Truthy(baseFiles, allEndpoints[n]),
                          ContentOr(branchFiles, allEndpoints[n]),
                          ContentOr(baseFiles, allEndpoints[n])))

compareResults(branchFiles, baseFiles) ==
  compareResultsFrom(branchFiles, baseFiles,
                     UnionKeys(branchFiles.keys, baseFiles.keys), 1, EmptyMap)


(***************************************************************************)
(* Bounds and inputs of the orchestration model.                           *)
(***************************************************************************)
\* number of configurations of the batch
NumConfigs == 2

\* the elapsed times, in milliseconds, a probe is measured to take
ElapsedTimes == {1}

\* ctx.inputs.configurations
Configurations ==
  [i \in 1..NumConfigs |->
     [name |-> "cfg" \o ToString(i),
      transport |-> IF i % 2 = 1 THEN "stdio" ELSE "streamable-http"]]

\* ctx.workDir and the worktree path derived from it
WorkDir == "/repo"

WorktreePath == WorkDir \o "/.conformance-base"

NoSections == [n \in {Sections[i] : i \in 1..Len(Sections)} |-> JNull]

Named(name) == JObj(<<"name">>, <<JStr(name)>>)

ToolsSection(tools) == JObj(<<"tools">>, <<JArr(tools)>>)

\* The snapshots the probe collaborator returns in the orchestration model.
SnapTools ==
  ProbeResult("", [NoSections EXCEPT !["tools"] = ToolsSection(<<Named("a"), Named("b")>>)],
              EmptyMap)

SnapMoreTools ==
  ProbeResult("", [NoSections EXCEPT
                     !["tools"] = ToolsSection(<<Named("b"), Named("a"), Named("c")>>),
                     !["prompts"] = JObj(<<"prompts">>, <<JArr(<<>>)>>)],
              EmptyMap)

SnapError == ProbeResult("spawn ENOENT", NoSections, EmptyMap)

\* What a call of probeServer does: it throws, or it returns a ProbeResult.
ProbeOutcomes ==
  {[throws |-> TRUE, result |-> SnapError]}
  \cup {[throws |-> FALSE, result |-> r] : r \in {SnapTools, SnapMoreTools, SnapError}}

(***************************************************************************)
(* git.ts: the effect of the git primitives on the repository.  repo.head  *)
(* is what the primary working directory has checked out, repo.previous    *)
(* what "git checkout -" would go back to ("none" if nothing), repo.       *)
(* worktree whether the linked worktree at WorktreePath exists, repo.built *)
(* the checkout the build output in the primary directory was made from.  *)
(* ok says whether the git command exits with status 0.                    *)
(***************************************************************************)
CompareRef == "compare"

\* git worktree add can only succeed while the path does not exist
CanCreateWorktree(r) == ~r.worktree

createWorktree(r, ok) ==
  [repo |-> IF ok THEN [r EXCEPT !.worktree = TRUE] ELSE r, returns |-> ok, throws |-> FALSE]

removeWorktree(r, ok) ==
  [repo |-> IF ok THEN [r EXCEPT !.worktree = FALSE] ELSE r, throws |-> FALSE]

checkout(r, ref, ok) ==
  [repo |-> IF ok THEN [r EXCEPT !.head = ref, !.previous = r.head] ELSE r, throws |-> ~ok]

\* git checkout - can only succeed when there is a previous checkout
CanCheckoutPrevious(r) == r.previous # "none"

checkoutPrevious(r, ok) ==
  [repo |-> IF ok THEN [r EXCEPT !.head = r.previous, !.previous = r.head] ELSE r,
   throws |-> FALSE]

(***************************************************************************)
(* runner.ts: runSingleConfigTest and runAllTests.                         *)
(***************************************************************************)
VARIABLES
  inputs,       \* ctx.inputs: installCommand and buildCommand ("" when unset)
  repo,         \* the repository, see above
  pc,           \* where the batch stands
  idx,          \* index in Configurations of the configuration of the loop
  results,      \* runAllTests: results
  savedFiles,   \* .conformance-results: Map from configuration name to file text
  result,       \* runSingleConfigTest: result
  branchFiles,  \* runSingleConfigTest: branchFiles
  useWorktree,  \* runSingleConfigTest: useWorktree
  completion,   \* how the try block or the run completed, with the error thrown
  calls,        \* history: the external calls of the run, in order
  holding,      \* history: the configurations that hold a baseline working copy
  startRepo     \* history: the repository when the run started

\* The variables of the specifications that apply one function to inputs.
VARIABLES
  arg,          \* the inputs the function is applied to
  ret,          \* what it returned
  applied       \* the function that was applied, "none" before

pureVars == <<arg, ret, applied>>

orchVars == <<inputs, repo, pc, idx, results, savedFiles, result, branchFiles,
              useWorktree, completion, calls, holding, startRepo>>

Call(op, dir, out, ms) == [op |-> op, dir |-> dir, out |-> out, ms |-> ms]

Normal == [kind |-> "normal", error |-> ""]

Return == [kind |-> "return", error |-> ""]

Throw(error) == [kind |-> "throw", error |-> error]

\* runSingleConfigTest: the result object a run starts with
NewResult(config) ==
  [configName |-> config.name, transport |-> config.transport, branchTime |-> 0,
   baseTime |-> 0, hasDifferences |-> FALSE, diffs |-> EmptyMap]

\* Variant: the error entry is recorded but the flag is left as it was.
BranchErrorResultNoFlag(r, error) ==
  [r EXCEPT !.diffs = MapSet(@, "error", "Current branch probe failed: " \o error)]

\* the probe of the current branch reported an error
BranchErrorResult(r, error) ==
  [r EXCEPT !.hasDifferences = TRUE,
            !.diffs = MapSet(@, "error", "Current branch probe failed: " \o error)]

\* the probe of the base ref reported an error
BaseErrorResult(r, error) ==
  [r EXCEPT !.hasDifferences = TRUE,
            !.diffs = MapSet(@, "error", "Base ref probe failed: " \o error)]

\* Variant: the differences are stored but the flag is never raised.
ComparedResultNoFlag(r, files, baseFiles) ==
  [r EXCEPT !.diffs = compareResults(files, baseFiles)]

\* both probes succeeded: the comparison
ComparedResult(r, files, baseFiles) ==
  LET diffs == compareResults(files, baseFiles)
  IN [r EXCEPT !.diffs = diffs, !.hasDifferences = Len(diffs.keys) > 0]

\* Variant: the baseline is always built and probed in the primary directory.
BaseWorkDirPrimary(worktree) == WorkDir

\* const baseWorkDir = useWorktree ? worktreePath : ctx.workDir
BaseWorkDir(worktree) == IF worktree THEN WorktreePath ELSE WorkDir

\* Variant: the loop of runAllTests has no catch block, a throw ends the batch.
AfterFinallyUncaught(kind) == IF kind = "throw" THEN "failed" ELSE "returned"

\* Where control goes after the finally block.
AfterFinally(kind) == IF kind = "throw" THEN "thrown" ELSE "returned"

\* Variant: the clean-up follows the try block instead of being its finally
\* block, so a throw or an early return leaves without it.
AfterTryNoFinally(kind) == IF kind = "normal" THEN "release" ELSE AfterFinally(kind)

\* Variant: the clean-up is in a catch-all, so an early return leaves without it.
AfterTrySkipsOnReturn(kind) == IF kind = "return" THEN AfterFinally(kind) ELSE "release"

\* Where control goes when the try block completes: the finally block.
AfterTry(kind) == "release"

\* Variant: the error is recorded but the result is not flagged.
CaughtResultNoFlag(config, error) ==
  [configName |-> config.name, transport |-> config.transport, branchTime |-> 0,
   baseTime |-> 0, hasDifferences |-> FALSE, diffs |-> MapSet(EmptyMap, "error", error)]

\* runAllTests: the result pushed when the run of a configuration threw
CaughtResult(config, error) ==
  [configName |-> config.name, transport |-> config.transport, branchTime |-> 0,
   baseTime |-> 0, hasDifferences |-> TRUE, diffs |-> MapSet(EmptyMap, "error", error)]

\* The text written to the result file of a configuration.
ResultFileText(r) ==
  Pretty(JObj(<<"configName", "transport", "branchTime", "baseTime",
                "hasDifferences", "diffs">>,
              <<JStr(r.configName), JStr(r.transport), JNum(ToString(r.branchTime)),
                JNum(ToString(r.baseTime)),
                JBool(IF r.hasDifferences THEN "true" ELSE "false"),
                JObj(r.diffs.keys,
                     [n \in 1..Len(r.diffs.keys) |-> JStr(r.diffs.items[n])])>>), "")

\* String(error) of the error a failed write of the result file throws
WriteError == "Error: ENOSPC: no space left on device"

InitRepo == {[head |-> "current", previous |-> p, worktree |-> FALSE, built |-> "current"] :
               p \in {"none", "other"}}

OrchIdle ==
  /\ idx = 1
  /\ results = <<>>
  /\ savedFiles = EmptyMap
  /\ result = NewResult(Configurations[1])
  /\ branchFiles = EmptyMap
  /\ useWorktree = FALSE
  /\ completion = Normal
  /\ calls = <<>>
  /\ holding = {}
  /\ startRepo = repo

OrchInit ==
  /\ inputs \in {[installCommand |-> "", buildCommand |-> ""],
                [installCommand |-> "npm ci", buildCommand |-> "npm run build"]}
  /\ repo \in InitRepo
  /\ pc = "loop"
  /\ OrchIdle

\* runAllTests: the loop takes the next configuration and its run begins
StartRun ==
  /\ pc = "loop"
  /\ idx <= NumConfigs
  /\ result' = NewResult(Configurations[idx])
  /\ branchFiles' = EmptyMap
  /\ useWorktree' = FALSE
  /\ completion' = Normal
  /\ calls' = <<>>
  /\ startRepo' = repo
  /\ pc' = "probeCurrent"
  /\ UNCHANGED pureVars
  /\ UNCHANGED <<inputs, repo, idx, results, savedFiles, holding>>

\* probeWithConfig: the working directory reaches the server for stdio only
ProbeCall(config, workDir, outcome, ms) ==
  Call(IF config.transport = "stdio" THEN "probe stdio" ELSE "probe http", workDir,
       IF outcome.throws THEN "threw"
       ELSE IF outcome.result.error # "" THEN "error" ELSE "ok",
       IF outcome.throws THEN 0 ELSE ms)

\* runSingleConfigTest: the probe of the current branch
ProbeCurrent ==
  /\ pc = "probeCurrent"
  /\ \E outcome \in ProbeOutcomes, ms \in ElapsedTimes :
       /\ calls' = Append(calls, ProbeCall(Configurations[idx], WorkDir, outcome, ms))
       /\ IF outcome.throws
          THEN /\ completion' = Throw("Error: probe failed")
               /\ pc' = "thrown"
               /\ UNCHANGED <<result, branchFiles>>
          ELSE IF outcome.result.error # ""
          THEN /\ result' = BranchErrorResult([result EXCEPT !.branchTime = ms],
                                              outcome.result.error)
               /\ completion' = Return
               /\ pc' = "returned"
               /\ UNCHANGED branchFiles
          ELSE /\ result' = [result EXCEPT !.branchTime = ms]
               /\ branchFiles' = probeResultToFiles(outcome.result)
               /\ pc' = "createWorktree"
               /\ UNCHANGED completion
  /\ UNCHANGED pureVars
  /\ UNCHANGED <<inputs, repo, idx, results, savedFiles, useWorktree, holding, startRepo>>

\* runSingleConfigTest: useWorktree = await createWorktree(...)
CreateWorktree ==
  /\ pc = "createWorktree"
  /\ \E ok \in {b \in BOOLEAN : b => CanCreateWorktree(repo)} :
       LET r == createWorktree(repo, ok)
       IN /\ repo' = r.repo
          /\ useWorktree' = r.returns
          /\ calls' = Append(calls, Call("createWorktree", WorktreePath,
                                         IF ok THEN "ok" ELSE "fail", 0))
          /\ holding' = IF r.returns THEN holding \cup {idx} ELSE holding
          /\ pc' = IF r.returns THEN "install" ELSE "checkout"
  /\ UNCHANGED pureVars
  /\ UNCHANGED <<inputs, idx, results, savedFiles, result, branchFiles, completion,
                 startRepo>>

\* runSingleConfigTest: await checkout(ctx.compareRef)
Checkout ==
  /\ pc = "checkout"
  /\ \E ok \in BOOLEAN :
       LET r == checkout(repo, CompareRef, ok)
       IN /\ repo' = r.repo
          /\ calls' = Append(calls, Call("checkout", WorkDir,
                                         IF ok THEN "ok" ELSE "fail", 0))
          /\ holding' = IF r.throws THEN holding ELSE holding \cup {idx}
          /\ completion' = IF r.throws THEN Throw("Error: git checkout failed")
                           ELSE completion
          /\ pc' = IF r.throws THEN AfterTry("throw") ELSE "install"
  /\ UNCHANGED pureVars
  /\ UNCHANGED <<inputs, idx, results, savedFiles, result, branchFiles, useWorktree,
                 startRepo>>

\* exec of a build command in dir: in the primary directory it replaces the
\* build output there by one made from what is checked out
ExecIn(r, dir) == IF dir = WorkDir THEN [r EXCEPT !.built = r.head] ELSE r

\* runBuild: the install command
RunInstall ==
  /\ pc = "install"
  /\ IF inputs.installCommand = ""
     THEN /\ pc' = "build"
          /\ UNCHANGED <<repo, calls, completion>>
     ELSE \E ok \in BOOLEAN :
            /\ repo' = ExecIn(repo, BaseWorkDir(useWorktree))
            /\ calls' = Append(calls, Call("install", BaseWorkDir(useWorktree),
                                           IF ok THEN "ok" ELSE "fail", 0))
            /\ completion' = IF ok THEN completion ELSE Throw("Error: install failed")
            /\ pc' = IF ok THEN "build" ELSE AfterTry("throw")
  /\ UNCHANGED pureVars
  /\ UNCHANGED <<inputs, idx, results, savedFiles, result, branchFiles, useWorktree,
                 holding, startRepo>>

\* runBuild: the build command
RunBuild ==
  /\ pc = "build"
  /\ IF inputs.buildCommand = ""
     THEN /\ pc' = "probeBase"
          /\ UNCHANGED <<repo, calls, completion>>
     ELSE \E ok \in BOOLEAN :
            /\ repo' = ExecIn(repo, BaseWorkDir(useWorktree))
            /\ calls' = Append(calls, Call("build", BaseWorkDir(useWorktree),
                                           IF ok THEN "ok" ELSE "fail", 0))
            /\ completion' = IF ok THEN completion ELSE Throw("Error: build failed")
            /\ pc' = IF ok THEN "probeBase" ELSE AfterTry("throw")
  /\ UNCHANGED pureVars
  /\ UNCHANGED <<inputs, idx, results, savedFiles, result, branchFiles, useWorktree,
                 holding, startRepo>>

\* runSingleConfigTest: the probe of the base ref and the comparison
ProbeBase ==
  /\ pc = "probeBase"
  /\ \E outcome \in ProbeOutcomes, ms \in ElapsedTimes :
       /\ calls' = Append(calls, ProbeCall(Configurations[idx], BaseWorkDir(useWorktree),
                                           outcome, ms))
       /\ IF outcome.throws
          THEN /\ completion' = Throw("Error: probe failed")
               /\ pc' = AfterTry("throw")
               /\ UNCHANGED result
          ELSE IF outcome.result.error # ""
          THEN /\ result' = BaseErrorResult([result EXCEPT !.baseTime = ms],
                                            outcome.result.error)
               /\ completion' = Return
               /\ pc' = AfterTry("return")
          ELSE /\ result' = ComparedResult([result EXCEPT !.baseTime = ms], branchFiles,
                                           probeResultToFiles(outcome.result))
               /\ completion' = Normal
               /\ pc' = AfterTry("normal")
  /\ UNCHANGED pureVars
  /\ UNCHANGED <<inputs, repo, idx, results, savedFiles, branchFiles, useWorktree,
                 holding, startRepo>>

\* runSingleConfigTest: the finally block
Release ==
  /\ pc = "release"
  /\ IF useWorktree
     THEN \E ok \in BOOLEAN :
            /\ repo' = removeWorktree(repo, ok).repo
            /\ calls' = Append(calls, Call("removeWorktree", WorktreePath,
                                           IF ok THEN "ok" ELSE "fail", 0))
     ELSE \E ok \in {b \in BOOLEAN : b => CanCheckoutPrevious(repo)} :
            /\ repo' = checkoutPrevious(repo, ok).repo
            /\ calls' = Append(calls, Call("checkoutPrevious", WorkDir,
                                           IF ok THEN "ok" ELSE "fail", 0))
  /\ holding' = holding \ {idx}
  /\ pc' = AfterFinally(completion.kind)
  /\ UNCHANGED pureVars
  /\ UNCHANGED <<inputs, idx, results, savedFiles, result, branchFiles, useWorktree,
                 completion, startRepo>>

\* runAllTests: the run returned; its result is pushed and its file written.
\* written is FALSE when mkdirSync or writeFileSync throws, which the catch
\* block of the loop handles.
SaveResult ==
  /\ pc = "returned"
  /\ \E written \in BOOLEAN :
       /\ results' = IF written THEN Append(results, result)
                     ELSE Append(Append(results, result),
                                 CaughtResult(Configurations[idx], WriteError))
       /\ savedFiles' = IF written
                        THEN MapSet(savedFiles, Configurations[idx].name,
                                    ResultFileText(result))
                        ELSE savedFiles
  /\ idx' = idx + 1
  /\ pc' = "loop"
  /\ UNCHANGED pureVars
  /\ UNCHANGED <<inputs, repo, result, branchFiles, useWorktree, completion, calls,
                 holding, startRepo>>

\* runAllTests: the run threw; the catch block pushes an error result
CatchError ==
  /\ pc = "thrown"
  /\ results' = Append(results, CaughtResult(Configurations[idx], completion.error))
  /\ idx' = idx + 1
  /\ pc' = "loop"
  /\ UNCHANGED pureVars
  /\ UNCHANGED <<inputs, repo, savedFiles, result, branchFiles, useWorktree, completion,
                 calls, holding, startRepo>>

\* runAllTests: return results
Finish ==
  /\ pc = "loop"
  /\ idx > NumConfigs
  /\ pc' = "done"
  /\ UNCHANGED pureVars
  /\ UNCHANGED <<inputs, repo, idx, results, savedFiles, result, branchFiles,
                 useWorktree, completion, calls, holding, startRepo>>

OrchNext ==
  \/ StartRun
  \/ ProbeCurrent
  \/ CreateWorktree
  \/ Checkout
  \/ RunInstall
  \/ RunBuild
  \/ ProbeBase
  \/ Release
  \/ SaveResult
  \/ CatchError
  \/ Finish

vars == <<orchVars, pureVars>>

\* Nothing is applied in the orchestration model.
PureIdle == arg = <<>> /\ ret = <<>> /\ applied = "none"

Init == OrchInit /\ PureIdle

Next == OrchNext

Spec == Init /\ [][Next]_vars

(***************************************************************************)
(* The comparison of two snapshots by the runner and by the comparator.    *)
(***************************************************************************)
\* longest tool list of a compared snapshot
MaxTools == 2

Described(name, d) == JObj(<<"name", "description">>, <<JStr(name), JStr(d)>>)

ToolItems == {Named("a"), Described("a", "x"), Named("b")}

ToolLists == UNION {[1..n -> ToolItems] : n \in 0..MaxTools}

\* what a server answered to the custom message "ping"
CustomMaps == {MapSet(EmptyMap, "ping", JArr(<<>>)),
               MapSet(EmptyMap, "ping", JObj(<<>>, <<>>))}

Snapshot(tools, custom) ==
  ProbeResult("", [NoSections EXCEPT !["tools"] = ToolsSection(tools)], custom)

\* error-free snapshots: a tool list, or no tool and an answer to "ping"
CompareSnapshots ==
  {Snapshot(tools, EmptyMap) : tools \in ToolLists}
  \cup {Snapshot(<<>>, custom) : custom \in CustomMaps}

\* The orchestration stands still while a function is applied.
OrchFrozen ==
  /\ inputs = [installCommand |-> "", buildCommand |-> ""]
  /\ repo = [head |-> "current", previous |-> "none", worktree |-> FALSE,
             built |-> "current"]
  /\ pc = "idle"
  /\ OrchIdle

CompareInit ==
  /\ OrchFrozen
  /\ arg \in [base : CompareSnapshots, target : CompareSnapshots]
  /\ ret = <<>>
  /\ applied = "none"

\* The Compare step of runSingleConfigTest and compareProbeResults, both
\* applied to the baseline snapshot arg.base and the current snapshot arg.target.
CompareSnapshotPair ==
  /\ applied = "none"
  /\ applied' = "compare"
  /\ ret' = [runner |-> ComparedResult(NewResult(Configurations[1]),
                                       probeResultToFiles(arg.target),
                                       probeResultToFiles(arg.base)),
             comparator |-> compareProbeResults(arg.base, arg.target)]
  /\ UNCHANGED arg
  /\ UNCHANGED orchVars

CompareNext == CompareSnapshotPair

SpecCompare == CompareInit /\ [][CompareNext]_vars

(***************************************************************************)
(* Properties of the orchestration.                                        *)
(***************************************************************************)
\* the run of runSingleConfigTest has just ended, by return or by throw
RunEnded == pc \in {"returned", "thrown"}

\* the positions in calls of the calls of the operations ops
CallsOf(ops) == {i \in 1..Len(calls) : calls[i].op \in ops}

\* the positions of the calls by which the run acquired its baseline
Acquisitions == {i \in CallsOf({"createWorktree", "checkout"}) : calls[i].out = "ok"}

ReleaseOps == {"removeWorktree", "checkoutPrevious"}

ProbeOps == {"probe stdio", "probe http"}

BuildOps == {"install", "build"}

\* the release operation that answers an acquisition
ReleaseFor(op) == IF op = "createWorktree" THEN "removeWorktree" ELSE "checkoutPrevious"

\* C1: when a run in which the baseline was acquired (createWorktree returned
\* true, or the fallback checkout completed) has ended, by return or by throw,
\* exactly one release step was executed in it, after the acquisition and after
\* every build and probe step, and it is removeWorktree for a worktree and
\* checkoutPrevious for a checkout.
C1_ReleasedExactlyOnce ==
  RunEnded =>
    \A a \in Acquisitions :
      /\ Cardinality(CallsOf(ReleaseOps)) = 1
      /\ \A r \in CallsOf(ReleaseOps) :
           /\ r = Len(calls)
           /\ r > a
           /\ calls[r].op = ReleaseFor(calls[a].op)

\* a run that acquired its baseline and then threw has ended after its release
C1_Witness ==
  /\ pc = "thrown"
  /\ Acquisitions # {}
  /\ completion.error = "Error: build failed"
  /\ calls[Len(calls)].op \in ReleaseOps

\* C2: when the probe of the current version returned a snapshot with error
\* set, the run returns a result with hasDifferences = true whose diff map has
\* exactly the key "error", and no other call (createWorktree, checkout, build
\* commands, baseline probe, release) is made in that run.
C2_BranchErrorShortCircuits ==
  (pc # "idle" /\ Len(calls) >= 1 /\ calls[1].out = "error") =>
    /\ Len(calls) = 1
    /\ pc \in {"returned", "loop", "done"}
    /\ completion.kind = "return"
    /\ result.hasDifferences
    /\ result.diffs.keys = <<"error">>
    /\ result.diffs.items = <<"Current branch probe failed: spawn ENOENT">>

\* a run has returned right after its current-branch probe reported an error
C2_Witness ==
  /\ pc = "returned"
  /\ Len(calls) = 1
  /\ calls[1].op \in ProbeOps
  /\ calls[1].out = "error"

\* C3: a step of the batch taken while the run of a configuration has thrown
\* appends exactly one result, for that configuration, with hasDifferences =
\* true and a diff map holding the single key "error" with the error's text,
\* leaves the earlier results as they are, and moves the loop on to the next
\* configuration.
C3_ThrowIsContained ==
  [][pc = "thrown" =>
       /\ Len(results') = Len(results) + 1
       /\ SubSeq(results', 1, Len(results)) = results
       /\ results'[Len(results')].configName = Configurations[idx].name
       /\ results'[Len(results')].hasDifferences
       /\ results'[Len(results')].diffs.keys = <<"error">>
       /\ results'[Len(results')].diffs.items = <<completion.error>>
       /\ idx' = idx + 1
       /\ pc' = "loop"]_vars

\* the second configuration is being run after the run of the first threw
C3_Witness ==
  /\ idx = 2
  /\ pc = "probeBase"
  /\ Len(results) = 1
  /\ results[1].configName = Configurations[1].name
  /\ results[1].diffs.keys = <<"error">>
  /\ results[1].diffs.items = <<"Error: git checkout failed">>

\* C4: when runAllTests has returned, its list holds exactly one result per
\* configuration, in configuration order.
C4_OneResultPerConfiguration ==
  pc = "done" =>
    /\ Len(results) = NumConfigs
    /\ \A i \in 1..NumConfigs : results[i].configName = Configurations[i].name

\* writing the result file of configuration i failed
WriteFailed(i) ==
  \E n \in 1..Len(results) :
    /\ results[n].configName = Configurations[i].name
    /\ results[n].diffs.items = <<WriteError>>

\* C5: when the run of a configuration starts, the result of every earlier
\* configuration, whether its run returned or threw, has been written to its
\* result file, unless the write itself failed.
C5_SavedBeforeNext ==
  pc = "probeCurrent" =>
    \A i \in 1..(idx - 1) : MapHas(savedFiles, Configurations[i].name) \/ WriteFailed(i)

\* C6: when a run has ended, the baseline working copy it created is gone: the
\* worktree it added no longer exists, and a primary directory it checked out
\* to the compare ref is back at the checkout it had when the run started.
C6_BaselineGone ==
  RunEnded =>
    \A a \in Acquisitions :
      IF calls[a].op = "createWorktree" THEN ~repo.worktree
      ELSE repo.head = startRepo.head

\* C7: at most one configuration holds a baseline working copy, it is the one
\* being run, and none holds one when the probe of the current version of a
\* configuration starts.
C7_NoOverlap ==
  /\ Cardinality(holding) <= 1
  /\ holding \subseteq {idx}
  /\ pc \in {"probeCurrent", "loop", "done"} => holding = {}

\* the second configuration holds its baseline after the first held and
\* released its own
C7_Witness ==
  /\ idx = 2
  /\ holding = {2}
  /\ pc = "probeBase"
  /\ Len(results) = 1
  /\ results[1].baseTime > 0

ProbeReportedError == \E i \in CallsOf(ProbeOps) : calls[i].out = "error"

ConsistentFlag(r) == r.hasDifferences <=> (Len(r.diffs.keys) > 0 \/ ProbeReportedError)

\* C9: the result a run returns, and every result the batch has pushed for the
\* configuration run last, has hasDifferences true if and only if its diff map
\* is non-empty or one of the two probes reported a terminal error.
C9_FlagMatchesDiffs ==
  /\ pc = "returned" => ConsistentFlag(result)
  /\ (pc \in {"loop", "done"} /\ idx > 1) =>
       \A i \in 1..Len(results) :
         results[i].configName = Configurations[idx - 1].name => ConsistentFlag(results[i])

\* a run returned differences for two endpoints without any probe error
C9_Witness ==
  /\ pc = "returned"
  /\ ~ProbeReportedError
  /\ result.hasDifferences
  /\ result.diffs.keys = <<"tools", "prompts">>

\* C10: the runner's comparison reports an entry for an endpoint exactly when
\* compareProbeResults reports one for it, and the run's hasDifferences says
\* whether the comparator produced entries.
C10_RunnerMatchesComparator ==
  applied = "compare" =>
    /\ {ret.runner.diffs.keys[n] : n \in 1..Len(ret.runner.diffs.keys)}
         = {ret.comparator[n].endpoint : n \in 1..Len(ret.comparator)}
    /\ ret.runner.hasDifferences <=> Len(ret.comparator) > 0

(***************************************************************************)
(* findJsonDifferences applied to bounded JSON values.                     *)
(***************************************************************************)
\* longest array among the values compared
MaxItems == 2

\* array members: named, named with a description, and without identity field
DiffMembers ==
  {Named("a"), Described("a", "x"), Described("a", "y"), Named("b"),
   JObj(<<"description">>, <<JStr("x")>>)}

DiffValues ==
  {JNull, JStr("a"), JStr("b"), JNum("1"), JBool("true"), JObj(<<>>, <<>>),
   Named("a"), Described("a", "x"), JObj(<<"uri">>, <<JStr("a")>>)}
  \cup {JArr(items) : items \in UNION {[1..n -> DiffMembers] : n \in 0..MaxItems}}

\* the tools of the scenario: a, b against b, a, c
ScenarioPair ==
  [base |-> JArr(<<Named("a"), Named("b")>>),
   target |-> JArr(<<Named("b"), Named("a"), Named("c")>>), path |-> ""]

\* a member without identity field at index 0 beside a member named "#0",
\* against the named member alone
MarkerPair ==
  [base |-> JArr(<<JObj(<<"description">>, <<JStr("x")>>), Named("#0")>>),
   target |-> JArr(<<Named("#0")>>), path |-> ""]

DiffInit ==
  /\ OrchFrozen
  /\ arg \in [base : DiffValues, target : DiffValues, path : {"", "tools"}]
             \cup {ScenarioPair, MarkerPair}
  /\ ret = <<>>
  /\ applied = "none"

\* findJsonDifferences applied to the pair in both directions and to the base
\* against itself
DiffApply ==
  /\ applied = "none"
  /\ applied' = "diff"
  /\ ret' = [fwd |-> findJsonDifferences(arg.base, arg.target, arg.path),
             bwd |-> findJsonDifferences(arg.target, arg.base, arg.path),
             refl |-> findJsonDifferences(arg.base, arg.base, arg.path)]
  /\ UNCHANGED arg
  /\ UNCHANGED orchVars

SpecDiff == DiffInit /\ [][DiffApply]_vars

(***************************************************************************)
(* generateJsonDiff applied to texts, some of which are not JSON, and the  *)
(* loop of compareProbeResults over files holding them.                    *)
(***************************************************************************)
\* texts JSON.parse throws on
InvalidTexts == {"not json", "{\"a\": }", "[1,2", "", "{\"a\":1}}"}

ValidTexts == {"{}", "[]", "{\"a\":1}", "{\"a\":2}", "null", " [ 1 , 2 ] "}

\* the files of a snapshot with the endpoints tools and prompts
TwoFiles(tools, prompts) ==
  MapSet(MapSet(EmptyMap, "tools", tools), "prompts", prompts)

JsonDiffInit ==
  /\ OrchFrozen
  /\ arg \in [base : InvalidTexts \cup ValidTexts, target : InvalidTexts \cup ValidTexts]
  /\ ret = <<>>
  /\ applied = "none"

\* generateJsonDiff on the two texts as the files of the endpoint tools, and
\* the comparison of files in which the endpoint prompts differs as well
JsonDiffApply ==
  /\ applied = "none"
  /\ applied' = "jsondiff"
  /\ ret' = [diff |-> generateJsonDiff("tools", arg.base, arg.target),
             entries |-> CompareFileMaps(TwoFiles(arg.base, "{\"a\":1}"),
                                         TwoFiles(arg.target, "{\"a\":2}"))]
  /\ UNCHANGED arg
  /\ UNCHANGED orchVars

SpecJsonDiff == JsonDiffInit /\ [][JsonDiffApply]_vars

(***************************************************************************)
(* normalizeProbeResult applied to values and to reordered copies of them. *)
(***************************************************************************)
\* longest array among the values normalized
MaxNormItems == 2

\* the object a: 1, b: 2 with its keys in either order
Pair12 == {JObj(<<"a", "b">>, <<JNum("1"), JNum("2")>>),
           JObj(<<"b", "a">>, <<JNum("2"), JNum("1")>>)}

\* a scalar, the object, and an object that holds it, keys in either order
NormElems ==
  {JStr("b")} \cup Pair12
  \cup {JObj(<<"a", "b">>, <<JNum("1"), JObj(<<"a", "b">>, <<JNum("1"), JNum("2")>>)>>),
         JObj(<<"b", "a">>, <<JObj(<<"b", "a">>, <<JNum("2"), JNum("1")>>), JNum("1")>>)}

NormValues ==
  NormElems
  \cup {JArr(items) : items \in UNION {[1..n -> NormElems] : n \in 0..MaxNormItems}}

NormalizeInit ==
  /\ OrchFrozen
  /\ arg \in [base : NormValues, target : NormValues]
  /\ ret = <<>>
  /\ applied = "none"

\* the canonical serialization of both values
NormalizeApply ==
  /\ applied = "none"
  /\ applied' = "normalize"
  /\ ret' = [base |-> FileText(arg.base), target |-> FileText(arg.target)]
  /\ UNCHANGED arg
  /\ UNCHANGED orchVars

SpecNormalize == NormalizeInit /\ [][NormalizeApply]_vars

(***************************************************************************)
(* Properties of findJsonDifferences.                                      *)
(***************************************************************************)
\* the item has a string identity field
HasIdentity(item) ==
  item.k = "object" /\ KeyField(item, <<"name", "uri", "uriTemplate", "method">>) # <<>>

\* the identity of an item that has one: the string in the first of its
\* identity fields
IdentityOf(item) ==
  GetKey(item, KeyField(item, <<"name", "uri", "uriTemplate", "method">>)[1]).s

\* the identity keys of the members of an array of named items, in order
KeysOf(v) == [i \in 1..Len(v.items) |-> IdentityOf(v.items[i])]

\* an array whose members all carry a string identity key
NamedArray(v) == v.k = "array" /\ \A i \in 1..Len(v.items) : HasIdentity(v.items[i])

\* an array whose members carry pairwise distinct string identity keys
DistinctKeyed(v) ==
  /\ NamedArray(v)
  /\ \A i, j \in 1..Len(v.items) : KeysOf(v)[i] = KeysOf(v)[j] => i = j

\* the number of times x occurs in seq
Count(seq, x) == Cardinality({i \in 1..Len(seq) : seq[i] = x})

\* b holds the items of a in some order
IsPermutation(a, b) ==
  /\ Len(a) = Len(b)
  /\ \A i \in 1..Len(a) : Count(a, a[i]) = Count(b, a[i])

HasPrefix(line, prefix) ==
  Len(line) >= Len(prefix) /\ SubSeq(line, 1, Len(prefix)) = prefix

\* the lines of lines that start with prefix
WithPrefix(lines, prefix) == SelectSeq(lines, LAMBDA l : HasPrefix(l, prefix))

\* C11: findJsonDifferences(x, x, path) is the empty list for every value x:
\* scalars, null, objects, and arrays, also arrays whose members share an
\* identity key or have none.
C11_Reflexive == applied = "diff" => ret.refl = <<>>

\* an array with two members of the same identity key was compared with itself
C11_Witness ==
  /\ applied = "diff"
  /\ arg.base = JArr(<<Named("a"), Described("a", "x")>>)
  /\ ret.refl = <<>>

\* C12: for two arrays of named items of which one holds the items of the
\* other in another order, findJsonDifferences returns the empty list.
C12_OrderInsensitive ==
  (/\ applied = "diff"
   /\ NamedArray(arg.base)
   /\ NamedArray(arg.target)
   /\ IsPermutation(arg.base.items, arg.target.items))
  => ret.fwd = <<>>

DiffKinds == {"array", "object", "string", "number", "boolean"}

\* C13: for base and target of different runtime kinds among array, object,
\* string, number and boolean, findJsonDifferences returns exactly two lines at
\* the same path: the removed line of base and the added line of target.
C13_TypeChangeIsReplacement ==
  (/\ applied = "diff"
   /\ arg.base.k \in DiffKinds
   /\ arg.target.k \in DiffKinds
   /\ arg.base.k # arg.target.k)
  => ret.fwd = <<"- " \o (IF arg.path = "" THEN "root" ELSE arg.path) \o ": "
                      \o formatValue(arg.base),
                 "+ " \o (IF arg.path = "" THEN "root" ELSE arg.path) \o ": "
                      \o formatValue(arg.target)>>

\* the line with its marker exchanged
Flip(line) == (IF Ch(line, 1) = "-" THEN "+" ELSE "-") \o SubSeq(line, 2, Len(line))

\* C14: the lines of findJsonDifferences(b, a, p) are, as a set, the lines of
\* findJsonDifferences(a, b, p) with every marker exchanged.
C14_AntiSymmetricLabels ==
  applied = "diff" =>
    {Flip(ret.fwd[n]) : n \in 1..Len(ret.fwd)} = {ret.bwd[n] : n \in 1..Len(ret.bwd)}

\* a member only the base has was reported as removed, and as added the other
\* way round
C14_Witness ==
  /\ applied = "diff"
  /\ arg.base = JArr(<<Named("a"), Named("b")>>)
  /\ arg.target = JArr(<<Named("b")>>)
  /\ arg.path = ""
  /\ ret.fwd = <<"- [a]: {\"name\":\"a\"}">>
  /\ ret.bwd = <<"+ [a]: {\"name\":\"a\"}">>

\* the identity keys of the members of an array, as a set
KeySet(v) == {KeysOf(v)[i] : i \in 1..Len(v.items)}

\* the member of the array that has the identity key
MemberOf(v, key) == v.items[CHOOSE i \in 1..Len(v.items) : KeysOf(v)[i] = key]

\* the path of the member with the identity key
MemberPath(key) == arg.path \o "[" \o key \o "]"

\* C16: for two arrays whose members carry pairwise distinct string identity
\* keys, findJsonDifferences emits exactly one "-" line for each key only the
\* base has, exactly one "+" line for each key only the target has, no such
\* line for another key, and no line at all for a member that is the same on
\* both sides, whatever the order of the members; for a, b against b, a, c
\* the result is the one line that adds c.
C16_DistinctKeysReconciled ==
  /\ (applied = "diff" /\ DistinctKeyed(arg.base) /\ DistinctKeyed(arg.target)) =>
       \A key \in KeySet(arg.base) \cup KeySet(arg.target) :
         /\ Len(WithPrefix(ret.fwd, "- " \o MemberPath(key) \o ": "))
              = IF key \in KeySet(arg.base) \ KeySet(arg.target) THEN 1 ELSE 0
         /\ Len(WithPrefix(ret.fwd, "+ " \o MemberPath(key) \o ": "))
              = IF key \in KeySet(arg.target) \ KeySet(arg.base) THEN 1 ELSE 0
         /\ (/\ key \in KeySet(arg.base) \cap KeySet(arg.target)
             /\ MemberOf(arg.base, key) = MemberOf(arg.target, key))
            => /\ WithPrefix(ret.fwd, "- " \o MemberPath(key)) = <<>>
               /\ WithPrefix(ret.fwd, "+ " \o MemberPath(key)) = <<>>
  /\ (applied = "diff" /\ arg = ScenarioPair) => ret.fwd = <<"+ [c]: {\"name\":\"c\"}">>

\* the tools a, b were compared with the tools b, a, c
C16_Witness ==
  /\ applied = "diff"
  /\ arg = ScenarioPair
  /\ Len(ret.fwd) = 1

\* the members differ in the field f, a scalar on both sides, and in nothing else
DiffersOnlyIn(m1, m2, f) ==
  /\ m1.keys = m2.keys
  /\ HasKey(m1, f)
  /\ GetKey(m1, f).k \in {"string", "number", "boolean"}
  /\ GetKey(m2, f).k \in {"string", "number", "boolean"}
  /\ GetKey(m1, f) # GetKey(m2, f)
  /\ \A n \in 1..Len(m1.keys) : m1.keys[n] # f => m1.items[n] = m2.items[n]

EndpointsOf(snapshot) ==
  {Sections[i] : i \in {j \in 1..Len(Sections) : snapshot.sections[Sections[j]].k # "null"}}
  \cup {"custom_" \o snapshot.customResponses.keys[i] :
          i \in 1..Len(snapshot.customResponses.keys)}

\* the entries of the comparator for the endpoint
EntriesFor(endpoint) == SelectSeq(ret.comparator, LAMBDA d : d.endpoint = endpoint)

\* C15: every entry of compareProbeResults is about an endpoint of one of the
\* two snapshots, and an endpoint only one snapshot has yields exactly one
\* entry, the fixed "removed" text when only the base has it and the fixed
\* "added" text when only the target has it, whatever its content.
C15_EndpointUnion ==
  applied = "compare" =>
    /\ \A n \in 1..Len(ret.comparator) :
         ret.comparator[n].endpoint \in EndpointsOf(arg.base) \cup EndpointsOf(arg.target)
    /\ \A e \in EndpointsOf(arg.base) \ EndpointsOf(arg.target) :
         EntriesFor(e) = <<[endpoint |-> e,
                            diff |-> "Endpoint removed in target (was present in base)"]>>
    /\ \A e \in EndpointsOf(arg.target) \ EndpointsOf(arg.base) :
         EntriesFor(e) = <<[endpoint |-> e,
                            diff |-> "Endpoint added in target (not present in base)"]>>

\* a custom response only the target has was compared
C15_Witness ==
  /\ applied = "compare"
  /\ arg.base = Snapshot(<<Named("a")>>, EmptyMap)
  /\ arg.target = Snapshot(<<>>, MapSet(EmptyMap, "ping", JObj(<<>>, <<>>)))
  /\ Len(ret.comparator) = 2
  /\ ret.comparator[2] = [endpoint |-> "custom_ping",
                          diff |-> "Endpoint added in target (not present in base)"]

\* C18: when the text of an endpoint does not parse as JSON on either side,
\* generateJsonDiff returns null if the two texts are equal and otherwise the
\* removed line of the whole base text and the added line of the whole target
\* text; the entry of the other endpoint is the one the differ gives it.
C18_ParseFailureFallsBack ==
  (applied = "jsondiff" /\ (arg.base \in InvalidTexts \/ arg.target \in InvalidTexts)) =>
    /\ ret.diff = IF arg.base = arg.target THEN NullText
                  ELSE Text("--- base/tools\n+++ target/tools\n- " \o arg.base
                            \o "\n+ " \o arg.target)
    /\ SelectSeq(ret.entries, LAMBDA d : d.endpoint = "prompts")
         = <<[endpoint |-> "prompts",
              diff |-> "--- base/prompts.json\n+++ target/prompts.json\n\n- a: 1\n+ a: 2"]>>

\* a text that is not JSON was compared with one that is
C18_Witness ==
  /\ applied = "jsondiff"
  /\ arg.base = "not json"
  /\ arg.target = "{}"
  /\ ret.diff = Text("--- base/tools\n+++ target/tools\n- not json\n+ {}")
  /\ Len(ret.entries) = 2

(***************************************************************************)
(* Properties of normalizeProbeResult.                                     *)
(***************************************************************************)
\* the one-to-one maps of 1..n onto itself
Perms(n) == {f \in [1..n -> 1..n] : \A i, j \in 1..n : f[i] = f[j] => i = j}

RECURSIVE PermutedCopy(_, _)
\* b is a with the keys of its objects and the elements of its arrays, at any
\* depth, in some other order
PermutedCopy(a, b) ==
  /\ a.k = b.k
  /\ CASE a.k = "object" ->
            /\ Len(a.keys) = Len(b.keys)
            /\ \A n \in 1..Len(a.keys) :
                 /\ HasKey(b, a.keys[n])
                 /\ PermutedCopy(a.items[n], GetKey(b, a.keys[n]))
       [] a.k = "array" ->
            /\ Len(a.items) = Len(b.items)
            /\ \E f \in Perms(Len(a.items)) :
                 \A i \in 1..Len(a.items) : PermutedCopy(a.items[i], b.items[f[i]])
       [] OTHER -> a = b

\* C19: the canonical serialization of the normalized value is the same for
\* a value and for every copy of it whose object keys and array elements, at
\* any depth, are in another order.
C19_OrderInvariant ==
  (applied = "normalize" /\ PermutedCopy(arg.base, arg.target)) => ret.base = ret.target

\* an array and a copy with its elements exchanged and the keys of the object
\* in it, and of the object nested in that, exchanged
C19_Witness ==
  /\ applied = "normalize"
  /\ arg.base = JArr(<<JObj(<<"a", "b">>,
                            <<JNum("1"), JObj(<<"a", "b">>, <<JNum("1"), JNum("2")>>)>>),
                       JStr("b")>>)
  /\ arg.target = JArr(<<JStr("b"),
                         JObj(<<"b", "a">>,
                              <<JObj(<<"b", "a">>, <<JNum("2"), JNum("1")>>), JNum("1")>>)>>)
  /\ ret.base = ret.target

(***************************************************************************)
(* runner.ts: parseConfigurations.  The input is undefined or a string, a  *)
(* configuration is an object whose members may be undefined.              *)
(***************************************************************************)
\* the value undefined
JUndef == [k |-> "undefined", s |-> "undefined", keys |-> <<>>, items |-> <<>>]

\* !v
Falsy(v) ==
  \/ v.k \in {"undefined", "null"}
  \/ v.k = "boolean" /\ v.s = "false"
  \/ v.k = "number" /\ v.s \in {"0", "-0"}
  \/ v.k = "string" /\ v.s = ""

\* a || b
OrElse(a, b) == IF Falsy(a) THEN b ELSE a

RECURSIVE TrimStart(_)
TrimStart(s) ==
  IF Ch(s, 1) \in {" ", "\n"} THEN TrimStart(SubSeq(s, 2, Len(s))) ELSE s

RECURSIVE TrimEnd(_)
TrimEnd(s) ==
  IF Ch(s, Len(s)) \in {" ", "\n"} THEN TrimEnd(SubSeq(s, 1, Len(s) - 1)) ELSE s

\* s.trim()
Trim(s) == TrimEnd(TrimStart(s))

\* v[key] of a value that is not null: undefined when v has no such member
Prop(v, key) == IF HasKey(v, key) THEN GetKey(v, key) ELSE JUndef

\* {...v}: the own members of v; a number or a boolean has none
Spread(v) ==
  CASE v.k = "object" -> v
    [] v.k = "array" -> JObj(ObjectKeys(v), v.items)
    [] v.k = "string" -> JObj([i \in 1..Len(v.s) |-> ToString(i - 1)],
                              [i \in 1..Len(v.s) |-> JStr(Ch(v.s, i))])
    [] OTHER -> JObj(<<>>, <<>>)

\* {...o, key: x}: a member o has keeps its place
With(o, key, x) ==
  IF HasKey(o, key)
  THEN JObj(o.keys, [i \in 1..Len(o.keys) |-> IF o.keys[i] = key THEN x ELSE o.items[i]])
  ELSE JObj(Append(o.keys, key), Append(o.items, x))

\* the single default configuration
DefaultConfiguration(defaultTransport, defaultCommand, defaultUrl) ==
  JObj(<<"name", "transport", "start_command", "server_url">>,
       <<JStr("default"), JStr(defaultTransport),
         IF defaultTransport = "stdio" THEN JStr(defaultCommand) ELSE JUndef,
         IF defaultTransport = "streamable-http" THEN JStr(defaultUrl) ELSE JUndef>>)

\* Variant: the transport of the entry is ignored.
ConfigTransportDefaultOnly(config, defaultTransport) == JStr(defaultTransport)

\* config.transport || defaultTransport
ConfigTransport(config, defaultTransport) ==
  OrElse(Prop(config, "transport"), JStr(defaultTransport))

\* the configuration the callback of configs.map returns for config
ApplyDefaults(config, transport, defaultCommand, defaultUrl) ==
  With(With(With(Spread(config), "transport", transport),
            "start_command",
            IF transport = JStr("stdio")
            THEN OrElse(Prop(config, "start_command"), JStr(defaultCommand))
            ELSE Prop(config, "start_command")),
       "server_url",
       IF transport = JStr("streamable-http")
       THEN OrElse(Prop(config, "server_url"), JStr(defaultUrl))
       ELSE Prop(config, "server_url"))

\* The try block, r the outcome of JSON.parse(input): it throws when the
\* text does not parse, when the value is not an array or is empty, and when
\* an element is null (config.transport of null is a TypeError).
TryConfigurations(r, defaultTransport, defaultCommand, defaultUrl) ==
  IF \/ ~r.ok
     \/ r.v.k # "array"
     \/ Len(r.v.items) = 0
     \/ \E i \in 1..Len(r.v.items) : r.v.items[i].k = "null"
  THEN [thrown |-> TRUE, configs |-> <<>>]
  ELSE [thrown |-> FALSE,
        configs |-> [i \in 1..Len(r.v.items) |->
                       ApplyDefaults(r.v.items[i],
                                     ConfigTransport(r.v.items[i], defaultTransport),
                                     defaultCommand, defaultUrl)]]

\* The catch block: a warning and the default configuration.
CatchConfigurations(t, defaultTransport, defaultCommand, defaultUrl) ==
  IF t.thrown
  THEN [configs |-> <<DefaultConfiguration(defaultTransport, defaultCommand, defaultUrl)>>,
        warned |-> TRUE]
  ELSE [configs |-> t.configs, warned |-> FALSE]

\* configs are the configurations returned, warned whether core.warning ran
parseConfigurations(input, defaultTransport, defaultCommand, defaultUrl) ==
  IF Falsy(input) \/ Trim(input.s) = "[]" \/ Trim(input.s) = ""
  THEN [configs |-> <<DefaultConfiguration(defaultTransport, defaultCommand, defaultUrl)>>,
        warned |-> FALSE]
  ELSE CatchConfigurations(
         TryConfigurations(JsonParse(input.s), defaultTransport, defaultCommand,
                           defaultUrl),
         defaultTransport, defaultCommand, defaultUrl)

(***************************************************************************)
(* parseConfigurations applied to configuration inputs.                    *)
(***************************************************************************)
\* unset, empty, blank, the empty array, texts that do not parse, values that
\* are not arrays, arrays whose elements are not configurations, and arrays
\* of configurations
ConfigurationTexts ==
  {"", "  ", "[]", " [] \n", "not json", "[{\"name\":", "{}", "{\"name\":\"x\"}",
   "null", "1", "\"stdio\"", "[1]", "[null]", "[\"x\"]", "[{}]", "[[]]",
   "[{\"name\":\"a\"},null]",
   "[{\"name\":\"a\"}]",
   "[{\"name\":\"a\",\"transport\":\"streamable-http\"}]",
   "[{\"name\":\"a\",\"args\":\"--x\",\"start_command\":\"\"}]",
   "[{\"name\":\"a\",\"transport\":\"stdio\",\"server_url\":\"http://c\"}]",
   "[{\"name\":\"a\",\"start_command\":\"custom\"},{\"name\":\"b\",\"transport\":\"streamable-http\",\"server_url\":\"http://c\"}]"}

ConfigurationInputs == {JUndef} \cup {JStr(t) : t \in ConfigurationTexts}

ParseConfigurationsInit ==
  /\ OrchFrozen
  /\ arg \in [input : ConfigurationInputs,
              defaultTransport : {"stdio", "streamable-http"},
              defaultCommand : {"node server.js", ""},
              defaultUrl : {"http://localhost:3000/mcp"}]
  /\ ret = <<>>
  /\ applied = "none"

ParseConfigurationsApply ==
  /\ applied = "none"
  /\ applied' = "parseConfigurations"
  /\ ret' = parseConfigurations(arg.input, arg.defaultTransport, arg.defaultCommand,
                                arg.defaultUrl)
  /\ UNCHANGED arg
  /\ UNCHANGED orchVars

SpecParseConfigurations == ParseConfigurationsInit /\ [][ParseConfigurationsApply]_vars

(***************************************************************************)
(* Properties of parseConfigurations.                                      *)
(***************************************************************************)
\* a configuration as TestConfiguration types it: an object whose name is a
\* string and whose transport, when it has one, is one of the two transports
IsConfiguration(v) ==
  /\ v.k = "object"
  /\ HasKey(v, "name") /\ GetKey(v, "name").k = "string"
  /\ HasKey(v, "transport") =>
       GetKey(v, "transport") \in {JStr("stdio"), JStr("streamable-http")}

\* the text is a non-empty JSON array of configurations
IsConfigurationList(r) ==
  /\ r.ok
  /\ r.v.k = "array"
  /\ Len(r.v.items) > 0
  /\ \A i \in 1..Len(r.v.items) : IsConfiguration(r.v.items[i])

Malformed(input) == input.k = "undefined" \/ ~IsConfigurationList(JsonParse(input.s))

\* the text is a non-empty JSON array
IsNonEmptyArray(r) == r.ok /\ r.v.k = "array" /\ Len(r.v.items) > 0

\* exactly one configuration, named default, with the defaults of the transport
OnlyDefault(configs) ==
  /\ Len(configs) = 1
  /\ configs[1].k = "object"
  /\ Prop(configs[1], "name") = JStr("default")
  /\ Prop(configs[1], "transport") = JStr(arg.defaultTransport)
  /\ arg.defaultTransport = "stdio" =>
       /\ Prop(configs[1], "start_command") = JStr(arg.defaultCommand)
       /\ Prop(configs[1], "server_url") = JUndef
  /\ arg.defaultTransport = "streamable-http" =>
       /\ Prop(configs[1], "server_url") = JStr(arg.defaultUrl)
       /\ Prop(configs[1], "start_command") = JUndef

\* C20: parseConfigurations returns exactly the default configuration for
\* every input that is unset, empty, blank, "[]", unparsable, not an array or
\* otherwise not a list of configurations.
C20_MalformedYieldsDefault ==
  (applied = "parseConfigurations" /\ Malformed(arg.input)) => OnlyDefault(ret.configs)

\* The part of C20 that the code keeps: an input that is unset or is not a
\* non-empty JSON array yields exactly the default configuration.
NotAnArrayYieldsDefault ==
  (applied = "parseConfigurations"
     /\ (arg.input.k = "undefined" \/ ~IsNonEmptyArray(JsonParse(arg.input.s))))
    => OnlyDefault(ret.configs)

\* an unparsable text has been given and the default came back with a warning
NotAnArrayWitness ==
  /\ applied = "parseConfigurations"
  /\ arg.input = JStr("not json")
  /\ ret.warned
  /\ OnlyDefault(ret.configs)

\* the member key of the entry when it has one that is not the empty string,
\* and else the default
OwnOrDefault(entry, key, default) ==
  IF HasKey(entry, key) /\ GetKey(entry, key) # JStr("")
  THEN GetKey(entry, key)
  ELSE JStr(default)

\* the transport the entry resolves to
ResolvedTransport(entry) ==
  IF HasKey(entry, "transport") THEN GetKey(entry, "transport")
  ELSE JStr(arg.defaultTransport)

\* config is what the claim asks for the entry
ResolvedFrom(entry, config) ==
  /\ config.k = "object"
  /\ Prop(config, "transport") = ResolvedTransport(entry)
  /\ ResolvedTransport(entry) = JStr("stdio") =>
       Prop(config, "start_command") = OwnOrDefault(entry, "start_command", arg.defaultCommand)
  /\ ResolvedTransport(entry) = JStr("streamable-http") =>
       Prop(config, "server_url") = OwnOrDefault(entry, "server_url", arg.defaultUrl)
  /\ \A n \in 1..Len(entry.keys) :
       entry.keys[n] \notin {"transport", "start_command", "server_url"} =>
         Prop(config, entry.keys[n]) = entry.items[n]
  /\ \A n \in 1..Len(config.keys) :
       config.keys[n] \in {"transport", "start_command", "server_url"}
         \/ HasKey(entry, config.keys[n])

\* the configurations answer the entries one by one, in order
ResolvedList(entries, configs) ==
  /\ Len(configs) = Len(entries)
  /\ \A i \in 1..Len(entries) : ResolvedFrom(entries[i], configs[i])

\* C21: for a non-empty array of configurations parseConfigurations returns
\* one configuration per entry, in order, with the entry's own transport or
\* the default one, the entry's own non-empty start_command (stdio) or
\* server_url (streamable-http) or the default, and every other field kept.
C21_DefaultsApplied ==
  (applied = "parseConfigurations" /\ arg.input.k = "string"
     /\ IsConfigurationList(JsonParse(arg.input.s)))
    => ResolvedList(JsonParse(arg.input.s).v.items, ret.configs)

\* two entries, the first without a transport under the default
\* streamable-http, the second with its own transport and URL
C21_Witness ==
  /\ applied = "parseConfigurations"
  /\ arg.defaultTransport = "streamable-http"
  /\ arg.input.k = "string"
  /\ IsConfigurationList(JsonParse(arg.input.s))
  /\ Len(ret.configs) = 2
  /\ Prop(ret.configs[1], "name") = JStr("a")
  /\ Prop(ret.configs[1], "start_command") = JStr("custom")
  /\ Prop(ret.configs[1], "server_url") = JStr(arg.defaultUrl)
  /\ Prop(ret.configs[2], "server_url") = JStr("http://c")

(***************************************************************************)
(* runner.ts: parseHeaders and parseCustomMessages.  The headers are an    *)
(* object; warned tells whether core.warning ran.                          *)
(***************************************************************************)
RECURSIVE IndexFrom(_, _, _)
IndexFrom(s, c, i) ==
  IF i > Len(s) THEN -1
  ELSE IF Ch(s, i) = c THEN i - 1
  ELSE IndexFrom(s, c, i + 1)

\* s.indexOf(c): counted from 0, -1 when s has no c
IndexOf(s, c) == IndexFrom(s, c, 1)

\* Variant: the equals sign is preferred to the colon.
SepIndexEqualsFirst(colonIndex, eqIndex) == IF eqIndex > 0 THEN eqIndex ELSE colonIndex

\* colonIndex > 0 ? colonIndex : eqIndex
SepIndex(colonIndex, eqIndex) == IF colonIndex > 0 THEN colonIndex ELSE eqIndex

\* headers[key] = value when the line has a separator past its first character
HeaderLine(headers, trimmed, sepIndex) ==
  IF sepIndex > 0
  THEN With(headers, Trim(SubSeq(trimmed, 1, sepIndex)),
            JStr(Trim(SubSeq(trimmed, sepIndex + 2, Len(trimmed)))))
  ELSE headers

\* the body of the loop over the lines, trimmed the line trimmed
AddHeaderLine(headers, trimmed) ==
  IF trimmed = "" \/ Ch(trimmed, 1) = "#"
  THEN headers
  ELSE HeaderLine(headers, trimmed, SepIndex(IndexOf(trimmed, ":"), IndexOf(trimmed, "=")))

RECURSIVE HeadersFrom(_, _, _)
HeadersFrom(lines, i, headers) ==
  IF i > Len(lines) THEN headers
  ELSE HeadersFrom(lines, i + 1, AddHeaderLine(headers, Trim(lines[i])))

\* r is the outcome of JSON.parse(input): an object is returned as it is,
\* anything else, and a text that does not parse, is read line by line
HeadersOf(input, r) ==
  IF r.ok /\ r.v.k = "object"
  THEN r.v
  ELSE HeadersFrom(SplitLines(input), 1, JObj(<<>>, <<>>))

parseHeaders(input) ==
  IF Falsy(input) \/ Trim(input.s) = "" \/ Trim(input.s) = "{}"
  THEN [headers |-> JObj(<<>>, <<>>), warned |-> FALSE]
  ELSE [headers |-> HeadersOf(input.s, JsonParse(input.s)), warned |-> FALSE]

\* r is the outcome of JSON.parse(input)
MessagesOf(r) == IF r.ok /\ r.v.k = "array" THEN r.v.items ELSE <<>>

parseCustomMessages(input) ==
  IF Falsy(input) \/ Trim(input.s) = "[]" \/ Trim(input.s) = ""
  THEN [messages |-> <<>>, warned |-> FALSE]
  ELSE [messages |-> MessagesOf(JsonParse(input.s)), warned |-> FALSE]

(***************************************************************************)
(* parseHeaders applied to header texts.                                   *)
(***************************************************************************)
\* most lines of a header text
MaxLines == 2

\* blank, comment, colon form, equals form, both separators in either order,
\* a separator as the first character, no separator, spaces to trim, colons
\* in the value, a name given twice
HeaderLines ==
  {"", "  ", "# c: d", "A: b", "A=b", "A=b:c", "A:b=c", ":a=b", "=b", ":b",
   "no separator", "  A  :  b c  ", "T: 1:2:3", "A: z", "B:"}

HeaderTexts ==
  {Join(ls, "\n") : ls \in UNION {[1..n -> HeaderLines] : n \in 1..MaxLines}}

\* unset, header texts, and JSON texts: objects and values that are no object
HeaderInputs ==
  {JUndef} \cup {JStr(t) : t \in HeaderTexts}
  \cup {JStr("{}"), JStr(" {} "), JStr("{\"A\":\"b\",\"X-Custom\":\"v\"}"),
        JStr("[1]"), JStr("null"), JStr("{\"A\":")}

ParseHeadersInit ==
  /\ OrchFrozen
  /\ arg \in [input : HeaderInputs]
  /\ ret = <<>>
  /\ applied = "none"

ParseHeadersApply ==
  /\ applied = "none"
  /\ applied' = "parseHeaders"
  /\ ret' = parseHeaders(arg.input)
  /\ UNCHANGED arg
  /\ UNCHANGED orchVars

SpecParseHeaders == ParseHeadersInit /\ [][ParseHeadersApply]_vars

(***************************************************************************)
(* The three input parsers applied to the same input.                      *)
(***************************************************************************)
ParseCustomMessagesApply ==
  /\ applied = "none"
  /\ applied' = "parseCustomMessages"
  /\ ret' = parseCustomMessages(arg.input)
  /\ UNCHANGED arg
  /\ UNCHANGED orchVars

ParseInputsNext ==
  \/ ParseConfigurationsApply
  \/ ParseHeadersApply
  \/ ParseCustomMessagesApply

SpecParseInputs == ParseConfigurationsInit /\ [][ParseInputsNext]_vars

(***************************************************************************)
(* Properties of parseHeaders.                                             *)
(***************************************************************************)
\* the places, counted from 1, where the line has the character c
Places(t, c) == {i \in 1..Len(t) : Ch(t, i) = c}

\* the first of them, 0 when there is none
FirstPlace(t, c) ==
  IF Places(t, c) = {} THEN 0
  ELSE CHOOSE i \in Places(t, c) : \A j \in Places(t, c) : i <= j

\* a blank line or a comment
Ignored(t) == t = "" \/ Ch(t, 1) = "#"

\* Where a line is split as stated: at its first colon when that is not the
\* first character, otherwise at its first equals sign; 0 for no header.
StatedSplit(t) ==
  IF Ignored(t) THEN 0
  ELSE IF FirstPlace(t, ":") > 1 THEN FirstPlace(t, ":")
  ELSE FirstPlace(t, "=")

\* The same, except that an equals sign that is the first character is no
\* separator either.
PastFirstSplit(t) ==
  IF Ignored(t) THEN 0
  ELSE IF FirstPlace(t, ":") > 1 THEN FirstPlace(t, ":")
  ELSE IF FirstPlace(t, "=") > 1 THEN FirstPlace(t, "=")
  ELSE 0

KeyAt(t, p) == Trim(SubSeq(t, 1, p - 1))

ValueAt(t, p) == Trim(SubSeq(t, p + 1, Len(t)))

\* headers holds exactly the headers of the lines ts split at the places
\* split, a later line replacing an earlier one of the same name
HeadersAnswer(ts, split, headers) ==
  /\ \A i \in 1..Len(ts) :
       split[i] > 0 =>
         /\ HasKey(headers, KeyAt(ts[i], split[i]))
         /\ (\A j \in (i + 1)..Len(ts) :
               split[j] > 0 => KeyAt(ts[j], split[j]) # KeyAt(ts[i], split[i]))
              => GetKey(headers, KeyAt(ts[i], split[i])) = JStr(ValueAt(ts[i], split[i]))
  /\ \A n \in 1..Len(headers.keys) :
       \E i \in 1..Len(ts) : split[i] > 0 /\ KeyAt(ts[i], split[i]) = headers.keys[n]

\* the lines of the text, trimmed
TrimmedLines(lines) == [i \in 1..Len(lines) |-> Trim(lines[i])]

\* parseHeaders was applied to a text that is not a JSON object
LinesWereRead ==
  /\ applied = "parseHeaders"
  /\ arg.input.k = "string"
  /\ ~(JsonParse(arg.input.s).ok /\ JsonParse(arg.input.s).v.k = "object")

\* C22 as stated: every line that is not blank and no comment is split at its
\* first colon when that is past the first character, otherwise at its first
\* equals sign, and contributes the trimmed key and value.
C22_SplitAtFirstSeparator ==
  LinesWereRead =>
    HeadersAnswer(TrimmedLines(SplitLines(arg.input.s)),
                  [i \in 1..Len(SplitLines(arg.input.s)) |->
                     StatedSplit(Trim(SplitLines(arg.input.s)[i]))],
                  ret.headers)

\* C22 amended: as above, but an equals sign separates only when it is past
\* the first character of the line; a line without such a separator
\* contributes no header.
C22_SplitPastFirstCharacter ==
  LinesWereRead =>
    HeadersAnswer(TrimmedLines(SplitLines(arg.input.s)),
                  [i \in 1..Len(SplitLines(arg.input.s)) |->
                     PastFirstSplit(Trim(SplitLines(arg.input.s)[i]))],
                  ret.headers)

\* a line that starts with an equals sign gave no header, and a line with an
\* equals sign before its colon was split at the colon
C22_Witness ==
  /\ applied = "parseHeaders"
  /\ arg.input = JStr("=b\nA=b:c")
  /\ ret.headers = JObj(<<"A=b">>, <<JStr("c")>>)

(***************************************************************************)
(* Properties of the three input parsers together.                         *)
(***************************************************************************)
\* the input is a text that is not blank
GivenText(input) == input.k = "string" /\ Trim(input.s) # ""

\* a text of configurations that is not the empty array and not a non-empty
\* JSON array
MalformedConfigurations(input) ==
  GivenText(input) /\ Trim(input.s) # "[]" /\ ~IsNonEmptyArray(JsonParse(input.s))

\* a text of custom messages that is not a JSON array
MalformedMessages(input) ==
  GivenText(input) /\ ~(JsonParse(input.s).ok /\ JsonParse(input.s).v.k = "array")

\* a text of headers that is no JSON object and has a line, neither blank nor
\* a comment, without a separator
MalformedHeaders(input) ==
  /\ GivenText(input)
  /\ ~(JsonParse(input.s).ok /\ JsonParse(input.s).v.k = "object")
  /\ \E i \in 1..Len(SplitLines(input.s)) :
       /\ ~Ignored(Trim(SplitLines(input.s)[i]))
       /\ PastFirstSplit(Trim(SplitLines(input.s)[i])) = 0

\* C23: on malformed input each parser returns its default or empty value
\* and has logged a warning.
C23_FallbackWarns ==
  /\ (applied = "parseConfigurations" /\ MalformedConfigurations(arg.input))
       => (OnlyDefault(ret.configs) /\ ret.warned)
  /\ (applied = "parseCustomMessages" /\ MalformedMessages(arg.input))
       => (ret.messages = <<>> /\ ret.warned)
  /\ (applied = "parseHeaders" /\ MalformedHeaders(arg.input))
       => (ret.headers.k = "object" /\ ret.warned)

\* The part of C23 that the code keeps: the fallback values are returned, and
\* parseConfigurations warns.
FallbackValues ==
  /\ (applied = "parseConfigurations" /\ MalformedConfigurations(arg.input))
       => (OnlyDefault(ret.configs) /\ ret.warned)
  /\ (applied = "parseCustomMessages" /\ MalformedMessages(arg.input))
       => ret.messages = <<>>
  /\ (applied = "parseHeaders" /\ MalformedHeaders(arg.input))
       => ret.headers.k = "object"

(***************************************************************************)
(* Further properties of runSingleConfigTest and runAllTests.              *)
(***************************************************************************)
\* r holds the duration of every probe of the last run that returned
DurationsIn(r) ==
  \A n \in CallsOf(ProbeOps) :
    calls[n].out # "threw" =>
      IF n = 1 THEN r.branchTime = calls[n].ms ELSE r.baseTime = calls[n].ms

\* C24: once the run of a configuration has been reported, a result of that
\* configuration in the list holds the measured duration of each probe that
\* was executed in the run, whatever the outcome of the run.
C24_DurationsRecorded ==
  (pc \in {"loop", "done"} /\ idx > 1) =>
    \E k \in 1..Len(results) :
      /\ results[k].configName = Configurations[idx - 1].name
      /\ DurationsIn(results[k])

\* C28: checkoutPrevious is called only in a run in which the fallback
\* checkout of the compare ref succeeded before; when that checkout failed
\* no release is made and the primary directory stays as the run found it.
C28_RestoreOnlyAfterCheckout ==
  /\ \A r \in CallsOf({"checkoutPrevious"}) :
       \E a \in CallsOf({"checkout"}) : a < r /\ calls[a].out = "ok"
  /\ (RunEnded /\ \E a \in CallsOf({"checkout"}) : calls[a].out = "fail")
       => (CallsOf(ReleaseOps) = {} /\ repo.head = startRepo.head)

\* C30: when the probe of the current version of a configuration starts, the
\* primary working directory has the current ref checked out and holds the
\* build output of the current version, as when the batch started.
C30_PrimaryDirectoryRestored ==
  pc = "probeCurrent" => (repo.head = "current" /\ repo.built = "current")

\* the steps of the batch other than the two probes
NonProbeStep ==
  \/ StartRun
  \/ CreateWorktree
  \/ Checkout
  \/ RunInstall
  \/ RunBuild
  \/ Release
  \/ SaveResult
  \/ CatchError
  \/ Finish

\* a probe is awaited
AtProbe == pc \in {"probeCurrent", "probeBase"}

\* Every external step of the batch eventually returns or throws: a step
\* that can be taken is eventually taken.  A probe step can be taken exactly
\* when a probe is awaited, which stands for its ENABLED in its weak fairness.
SpecLive ==
  /\ Spec
  /\ WF_vars(NonProbeStep)
  /\ ([]<>(~AtProbe) \/ []<><<ProbeCurrent \/ ProbeBase>>_vars)

\* every requested configuration has a result in the list
AllReported ==
  \A i \in 1..NumConfigs :
    \E k \in 1..Len(results) : results[k].configName = Configurations[i].name

\* C26: the batch eventually terminates, and then every requested
\* configuration has a result in the returned list.
C26_EveryConfigurationReported == <>(pc = "done" /\ AllReported)

\* the batch is over, the run of its first configuration threw and the run
\* of its last one returned
C26_Witness ==
  /\ pc = "done"
  /\ AllReported
  /\ results[1].diffs.keys = <<"error">>
  /\ results[1].diffs.items = <<"Error: probe failed">>
  /\ completion.kind = "normal"

(***************************************************************************)
(* git.ts: determineCompareRef.  git is what the repository answers: tags  *)
(* the output lines of git tag --sort=-v:refname, tagsFail whether that    *)
(* command fails, originMain and main whether rev-parse --verify finds the *)
(* ref, mergeBase whether git merge-base succeeds.                         *)
(***************************************************************************)
\* s.startsWith(prefix)
StartsWith(s, prefix) ==
  Len(s) >= Len(prefix) /\ SubSeq(s, 1, Len(prefix)) = prefix

TagPrefix == "refs/tags/"

\* output.trim().split("\n")[0] of git rev-list --max-parents=0 HEAD
getFirstCommit(git) == "c0"

\* what git merge-base HEAD ref prints
MergeBaseOf(ref) == "mergebase(" \o ref \o ")"

\* tags.indexOf(currentTag), counted from 1; 0 when the tag is not listed
TagIndex(tags, currentTag) ==
  IF \E i \in 1..Len(tags) : tags[i] = currentTag
  THEN CHOOSE i \in 1..Len(tags) :
         tags[i] = currentTag /\ \A j \in 1..(i - 1) : tags[j] # currentTag
  ELSE 0

\* Variant: the tag listed before the current one is taken.
PreviousTagAtNewer(tags, i) ==
  IF i >= 2 THEN JStr(tags[i - 1]) ELSE JNull

\* i is the place of the current tag in tags
PreviousTagAt(tags, i) ==
  IF i >= 1 /\ i < Len(tags) THEN JStr(tags[i + 1]) ELSE JNull

\* the tag listed after currentTag, null when there is none or git fails;
\* an empty output splits into one empty line
findPreviousTag(git, currentTag) ==
  IF git.tagsFail THEN JNull
  ELSE IF git.tags = <<>> THEN PreviousTagAt(<<"">>, TagIndex(<<"">>, currentTag))
  ELSE PreviousTagAt(git.tags, TagIndex(git.tags, currentTag))

findMainBranch(git) ==
  IF git.originMain THEN "origin/main"
  ELSE IF git.main THEN "main"
  ELSE getFirstCommit(git)

\* the merge-base, or the ref itself when git merge-base fails
getMergeBase(git, ref) == IF git.mergeBase THEN MergeBaseOf(ref) ELSE ref

\* the branch of a tag push, previousTag what findPreviousTag returned
CompareRefOfTag(git, currentTag, previousTag) ==
  IF ~Falsy(previousTag) /\ previousTag # JStr(currentTag)
  THEN [ref |-> previousTag.s, warned |-> FALSE]
  ELSE [ref |-> getFirstCommit(git), warned |-> TRUE]

\* ref is the compare ref returned, warned whether core.warning ran
determineCompareRef(git, explicitRef, githubRef) ==
  IF ~Falsy(explicitRef)
  THEN [ref |-> explicitRef.s, warned |-> FALSE]
  ELSE IF githubRef.k = "string" /\ StartsWith(githubRef.s, TagPrefix)
  THEN CompareRefOfTag(git, SubSeq(githubRef.s, Len(TagPrefix) + 1, Len(githubRef.s)),
                       findPreviousTag(git, SubSeq(githubRef.s, Len(TagPrefix) + 1,
                                                   Len(githubRef.s))))
  ELSE [ref |-> getMergeBase(git, findMainBranch(git)), warned |-> FALSE]

(***************************************************************************)
(* determineCompareRef applied to refs and repositories.                   *)
(***************************************************************************)
\* no tag, the two tags of a second release, three tags
TagLists == {<<>>, <<"v2", "v1">>, <<"v3", "v2", "v1">>}

GitAnswers ==
  [tags : TagLists, tagsFail : BOOLEAN, originMain : BOOLEAN, main : BOOLEAN,
   mergeBase : BOOLEAN]

ExplicitRefs == {JUndef, JStr(""), JStr("v0")}

\* unset, a branch push, a pull request, pushes of the newest, the oldest
\* and an unlisted tag
GithubRefs ==
  {JUndef, JStr("refs/heads/main"), JStr("refs/pull/1/merge"), JStr("refs/tags/v2"),
   JStr("refs/tags/v1"), JStr("refs/tags/v9")}

CompareRefInit ==
  /\ OrchFrozen
  /\ arg \in [git : GitAnswers, explicitRef : ExplicitRefs, githubRef : GithubRefs]
  /\ ret = <<>>
  /\ applied = "none"

CompareRefApply ==
  /\ applied = "none"
  /\ applied' = "determineCompareRef"
  /\ ret' = determineCompareRef(arg.git, arg.explicitRef, arg.githubRef)
  /\ UNCHANGED arg
  /\ UNCHANGED orchVars

SpecCompareRef == CompareRefInit /\ [][CompareRefApply]_vars

(***************************************************************************)
(* Properties of determineCompareRef.                                      *)
(***************************************************************************)
\* a ref was given explicitly
IsExplicit == arg.explicitRef.k = "string" /\ arg.explicitRef.s # ""

\* the run was triggered by the push of a tag
IsTagPush ==
  arg.githubRef.k = "string" /\ StartsWith(arg.githubRef.s, "refs/tags/")

\* the tag pushed
PushedTag == SubSeq(arg.githubRef.s, 11, Len(arg.githubRef.s))

\* the tags listed after the pushed tag, in the order of the list
OlderTags ==
  {i \in 2..Len(arg.git.tags) : arg.git.tags[i - 1] = PushedTag}

\* the main-line ref: origin/main, else main, else the first commit
MainLine ==
  IF arg.git.originMain THEN "origin/main" ELSE IF arg.git.main THEN "main" ELSE "c0"

ItemKeys(v) == [i \in 1..Len(v.items) |-> getItemKey(v.items[i], i - 1)]

\* no member of the array v without identity field shares its key
KeylessKeysUnique(v, keys) ==
  \A i, j \in 1..Len(v.items) :
    (i # j /\ ~HasIdentity(v.items[i])) => keys[i] # keys[j]

\* C27: within one array the key of a member without identity field, the
\* marker and its index, differs from the key of every other member.
C27_KeylessKeysUnique ==
  applied = "diff" =>
    /\ arg.base.k = "array" => KeylessKeysUnique(arg.base, ItemKeys(arg.base))
    /\ arg.target.k = "array" => KeylessKeysUnique(arg.target, ItemKeys(arg.target))

RECURSIVE EqualUpToKeyedOrder(_, _)
\* a and b are structurally equal, except that array members that carry an
\* identity key may stand in another place
EqualUpToKeyedOrder(a, b) ==
  /\ a.k = b.k
  /\ CASE a.k = "object" ->
            /\ Len(a.keys) = Len(b.keys)
            /\ \A n \in 1..Len(a.keys) :
                 /\ HasKey(b, a.keys[n])
                 /\ EqualUpToKeyedOrder(a.items[n], GetKey(b, a.keys[n]))
       [] a.k = "array" ->
            /\ Len(a.items) = Len(b.items)
            /\ \E f \in Perms(Len(a.items)) :
                 \A i \in 1..Len(a.items) :
                   /\ EqualUpToKeyedOrder(a.items[i], b.items[f[i]])
                   /\ f[i] # i => HasIdentity(a.items[i])
       [] OTHER -> a = b

\* C29: findJsonDifferences returns the empty list only for values that are
\* structurally equal up to the order of array members with an identity key.
C29_NoHiddenDivergence ==
  (applied = "diff" /\ ret.fwd = <<>>) => EqualUpToKeyedOrder(arg.base, arg.target)

====
